---- MODULE Spec2Model ----
(***************************************************************************)
(* Verification model of the orchestration core of AutoGenDemo:           *)
(*   - FallbackChatCompletionClient (src/config/model_client.py)          *)
(*   - WorkflowBridge and the WebSocket endpoint (src/web/bridge.py,      *)
(*     src/web/app.py)                                                     *)
(*   - the web workflow run (src/workflow/orchestrator.py, src/main.py)   *)
(*   - the reflection loops (src/workflow/reflection.py)                  *)
(* Each component has its own specification over the shared variables;    *)
(* the variables of the other components stay at their initial values.    *)
(***************************************************************************)
EXTENDS Integers, Sequences, FiniteSets, TLC

(***************************************************************************)
(* Bounds of the model                                                     *)
(***************************************************************************)
MaxEndpoints == 3
MaxCalls == 3
MaxClock == 80
TickSeconds == 20
MaxObservers == 2
MaxEmits == 3
MaxChunks == 1
MaxRounds == 3
MaxTurns == 1
MaxIterations == 2
MaxCommands == 2
MaxThread == 2
MaxOverlapEndpoints == 2
MaxOverlapCalls == 2
MaxQueued == 2

(***************************************************************************)
(* Program constants                                                       *)
(***************************************************************************)
MODEL_COOLDOWN_SECONDS == 60
MODEL_RETRY_WAIT_SECONDS == 10
MAX_REFLECTION_ROUNDS == 3

\* last_error = None: no exception
None == [type |-> "None", text |-> <<>>]

VARIABLES
  \* ---- FallbackChatCompletionClient ----
  nClients,        \* len(self._clients)
  current_index,   \* self._current_index
  cooldowns,       \* self._cooldowns: endpoint index -> wake-up timestamp
  clock,           \* time.time()
  pc,              \* per create call: position in create
  now,             \* per create call: local `now`
  i,               \* per create call: loop variable i of the scan
  idx,             \* per create call: local `idx`, the endpoint being tried
  last_error,      \* per create call: local `last_error`
  wakeAt,          \* per create call: end of asyncio.sleep
  result,          \* per create call: what create returned or raised
  ncalls,          \* number of create calls started so far
  \* ---- observation of the router (history of the current call) ----
  tried,           \* per create call: the attempts made, in order
  sleeps,          \* per create call: number of sleeps
  limitedUntil,    \* endpoint -> deadline set by its latest rate-limit
  limitedBy,       \* endpoint -> serial number of the call that set it
  clearedSince,    \* endpoint -> cooldown map cleared since that rate-limit
  \* ---- FallbackChatCompletionClient.create_stream ----
  spc,             \* the stream create_stream returned: "idle", "open" or "done"
  stream_index,    \* the endpoint whose create_stream was called
  stream_result,   \* how the stream ended
  nstreams,        \* number of create_stream calls so far
  preferredAtCall, \* observation: self._current_index when create_stream was called
  streamRequests,  \* observation: the endpoints the stream call sent requests to
  \* ---- WorkflowBridge ----
  messages,        \* self.messages: the history
  subscribers,     \* self._subscribers: the registered queues, in order
  queue,           \* observer -> the contents of its subscription queue
  nEmitted,        \* number of emit calls so far
  nChunks,         \* number of emit_chunk calls so far
  \* ---- websocket_endpoint, one per observer ----
  opc,             \* observer -> position of its handler
  pos,             \* observer -> index of the history replay loop
  received,        \* observer -> what websocket.send_json has sent to it
  nReplayed,       \* observer -> how many of those the replay loop sent
  joinedAt,        \* observer -> len(self.messages) when it subscribed
  \* ---- a reflection loop (RoundRobinGroupChat) ----
  team,            \* its participants, approval marker and max_rounds
  transcript,      \* the turns of its participants so far
  counted,         \* messages MaxMessageTermination has counted
  lstate,          \* "running" or "terminated"
  \* ---- a web run ----
  input_queue,     \* bridge.input_queue: the values put and not yet taken
  getters,         \* the coroutines waiting in input_queue.get(), in order
  running,         \* bridge.running
  waiting_for_input, \* bridge.waiting_for_input
  cancel_event,    \* bridge.cancel_event is set
  workflow_task,   \* bridge._workflow_task: "none", "pending" or "done"
  cancelPending,   \* Task.cancel() was called and has not yet taken effect
  wpc,             \* the await the workflow task is suspended in
  stage,           \* the stage being run, 1..4
  turns,           \* messages the current stage has yielded
  iteration,       \* local `iteration` of the outer loop
  lpc,             \* position of workflow_listener
  thread,          \* the executor thread running _web_input_func
  coro,            \* the request_input that thread scheduled on the loop
  outcome,         \* how run_workflow_web ended
  nSent,           \* commands the observers have sent
  \* ---- observation of the run ----
  cancelledIn,     \* the await the task was suspended in at request_cancel
  stoppedAt,       \* where CancelledError was raised: "check_cancel" or "await"
  aborted,         \* an outstanding call was abandoned by the cancellation
  expired,         \* a wait for human input ran into its time bound
  lateConsumed,    \* a request_input took a value after the run had ended
  stop_reason,     \* the stage whose TaskResult arrived last, and why it stopped
  task_prompt,     \* local `task_prompt` of _run_workflow_internal
  user_corrections, \* the corrections add_user_correction has recorded
  provided,        \* the values passed to provide_input, in order
  taken,           \* who got which value from input_queue, in order
  \* ---- the speaker selection of create_group_chat ----
  conversation,    \* the messages passed to the selector function
  decision,        \* what custom_selector_func returned for them
  fallbacks        \* how often the model-based selection was invoked

createVars == <<nClients, current_index, cooldowns, clock, pc, now, i, idx,
                last_error, wakeAt, result, ncalls, tried, sleeps,
                limitedUntil, limitedBy, clearedSince>>
streamVars == <<spc, stream_index, stream_result, nstreams, preferredAtCall,
                streamRequests>>
routerVars == <<createVars, streamVars>>

bridgeVars == <<messages, subscribers, queue, nEmitted, nChunks>>
observerVars == <<opc, pos, received, nReplayed, joinedAt>>

loopVars == <<team, transcript, counted, lstate>>

runVars == <<input_queue, getters, running, waiting_for_input, cancel_event,
             workflow_task, cancelPending, wpc, stage, turns, iteration, lpc,
             thread, coro, outcome, nSent, cancelledIn, stoppedAt, aborted,
             expired, lateConsumed, stop_reason, task_prompt, user_corrections,
             provided, taken>>

selectorVars == <<conversation, decision, fallbacks>>

vars == <<routerVars, bridgeVars, observerVars, loopVars, runVars, selectorVars>>

\* the create calls in flight: the pipeline calls create sequentially, Sequential
\* is the one caller it has; Callers leaves room for calls that overlap
Callers == {1, 2}
Sequential == {1}
\* self._cooldowns = {} and self._cooldowns.clear()
EmptyMap == [e \in {} |-> 0]

(***************************************************************************)
(* Backend errors: the name of the exception type and the words of its    *)
(* message.  _is_rate_limit_error classifies them.                         *)
(***************************************************************************)
Lower(w) ==
  CASE w = "Rate Limit" -> "rate limit"
    [] w = "Connection" -> "connection"
    [] w = "Error" -> "error"
    [] OTHER -> w

Errors ==
  { [type |-> "RateLimitError", text |-> <<"Error", "429">>],
    [type |-> "APIStatusError", text |-> <<"Rate Limit">>],
    [type |-> "APIConnectionError", text |-> <<"Connection", "Error">>] }

\* "429" in error_str or "rate limit" in error_str, error_str lower-cased
MentionsLimit(text) ==
  \E k \in 1..Len(text) : Lower(text[k]) \in {"429", "rate limit"}

IsRateLimitError(error) ==
  IF error.type = "RateLimitError" THEN TRUE ELSE MentionsLimit(error.text)

NoClientError == [type |-> "RuntimeError", text |-> <<"no client">>]

(***************************************************************************)
(* create: the scan                                                        *)
(***************************************************************************)
\* the comparison of line 90 the other way round
CoolingReversed(e, t, cds) == e \in DOMAIN cds /\ cds[e] < t

\* line 90: idx in self._cooldowns and self._cooldowns[idx] > now
Cooling(e, t, cds) == e \in DOMAIN cds /\ cds[e] > t

\* the first loop index >= k whose endpoint is not skipped (nClients if none);
\* base is the value of current_index the loop reads
NextEligible(k, base, t, cds) ==
  LET ok == { j \in k..(nClients - 1) : ~Cooling((base + j) % nClients, t, cds) }
  IN IF ok = {} THEN nClients
     ELSE CHOOSE j \in ok : \A m \in ok : j <= m

\* one entry of the observed attempt history of a call
\*   early:   the endpoint was rate-limited by an earlier call and the deadline
\*            that rate-limit set has not passed when the request is sent
\*   cleared: the cooldown map was cleared since that rate-limit
\*   out, error: how the request ended
Attempt(e, phase, serial) ==
  [idx |-> e, phase |-> phase,
   early |-> limitedUntil[e] > clock /\ limitedBy[e] # serial,
   cleared |-> clearedSince[e],
   out |-> "pending", error |-> None]

Ended(tr, out, error) ==
  [tr EXCEPT ![Len(tr)] = [@ EXCEPT !.out = out, !.error = error]]

Raised(e, from) == [kind |-> "raise", error |-> e, from |-> from]
Returned(from) == [kind |-> "ok", error |-> None, from |-> from]

\* The for loop of create (lines 86-114) from loop index k up to its next
\* await, or past its end (lines 116-134); t is the call's `now`, cds the
\* cooldown map, le the call's last_error, tr the attempts made so far,
\* serial the number of the call.
ContinueScan(c, k, t, cds, le, tr, serial) ==
  LET j == NextEligible(k, current_index, t, cds)
      e == (current_index + j) % nClients
  IN
  IF j < nClients
  THEN \* lines 93-101: the request to endpoint e is in flight
       /\ pc' = [pc EXCEPT ![c] = "await_scan"]
       /\ i' = [i EXCEPT ![c] = j]
       /\ idx' = [idx EXCEPT ![c] = e]
       /\ tried' = [tried EXCEPT ![c] = Append(tr, Attempt(e, "scan", serial))]
       /\ UNCHANGED <<wakeAt, result>>
  ELSE IF le # None
  THEN \* lines 117-122: something was rate-limited; asyncio.sleep starts
       /\ pc' = [pc EXCEPT ![c] = "sleeping"]
       /\ i' = [i EXCEPT ![c] = nClients]
       /\ wakeAt' = [wakeAt EXCEPT ![c] = clock + MODEL_RETRY_WAIT_SECONDS]
       /\ tried' = [tried EXCEPT ![c] = tr]
       /\ UNCHANGED <<idx, result>>
  ELSE \* line 134: nothing was attempted
       /\ pc' = [pc EXCEPT ![c] = "done"]
       /\ i' = [i EXCEPT ![c] = nClients]
       /\ result' = [result EXCEPT ![c] = Raised(NoClientError, -1)]
       /\ tried' = [tried EXCEPT ![c] = tr]
       /\ UNCHANGED <<idx, wakeAt>>

\* lines 82-101: a create call starts and runs up to its first await
CreateBegin(c) ==
  /\ pc[c] \in {"idle", "done"}
  /\ ncalls < MaxCalls
  /\ ncalls' = ncalls + 1
  /\ now' = [now EXCEPT ![c] = clock]
  /\ last_error' = [last_error EXCEPT ![c] = None]
  /\ sleeps' = [sleeps EXCEPT ![c] = 0]
  /\ ContinueScan(c, 0, clock, cooldowns, None, <<>>, ncalls + 1)
  /\ UNCHANGED <<nClients, current_index, cooldowns, clock, limitedUntil, limitedBy, clearedSince>>

\* ScanReturnOk without line 103, self._current_index = idx
ScanReturnOkForgets(c) ==
  /\ pc[c] = "await_scan"
  /\ pc' = [pc EXCEPT ![c] = "done"]
  /\ result' = [result EXCEPT ![c] = Returned(idx[c])]
  /\ tried' = [tried EXCEPT ![c] = Ended(tried[c], "ok", None)]
  /\ UNCHANGED <<nClients, current_index, cooldowns, clock, now, i, idx, last_error,
                 wakeAt, ncalls, sleeps, limitedUntil, limitedBy, clearedSince>>

\* lines 102-104: the endpoint in flight answers; remember it and return
ScanReturnOk(c) ==
  /\ pc[c] = "await_scan"
  /\ current_index' = idx[c]
  /\ pc' = [pc EXCEPT ![c] = "done"]
  /\ result' = [result EXCEPT ![c] = Returned(idx[c])]
  /\ tried' = [tried EXCEPT ![c] = Ended(tried[c], "ok", None)]
  /\ UNCHANGED <<nClients, cooldowns, clock, now, i, idx, last_error, wakeAt,
                 ncalls, sleeps, limitedUntil, limitedBy, clearedSince>>

\* ScanReturnError with every exception handled as lines 108-112 handle a
\* rate-limit error
ScanReturnErrorAlwaysContinues(c, error) ==
  /\ pc[c] = "await_scan"
  /\ LET cds == [e \in DOMAIN cooldowns \cup {idx[c]} |->
                   IF e = idx[c] THEN now[c] + MODEL_COOLDOWN_SECONDS
                   ELSE cooldowns[e]]
     IN /\ cooldowns' = cds
        /\ last_error' = [last_error EXCEPT ![c] = error]
        /\ limitedUntil' = [limitedUntil EXCEPT ![idx[c]] = now[c] + MODEL_COOLDOWN_SECONDS]
        /\ limitedBy' = [limitedBy EXCEPT ![idx[c]] = ncalls]
        /\ clearedSince' = [clearedSince EXCEPT ![idx[c]] = FALSE]
        /\ ContinueScan(c, i[c] + 1, now[c], cds, error,
                        Ended(tried[c], "error", error), ncalls)
  /\ UNCHANGED <<nClients, current_index, clock, now, ncalls, sleeps>>

\* lines 106-114: the endpoint in flight raises error
ScanReturnError(c, error) ==
  /\ pc[c] = "await_scan"
  /\ IF IsRateLimitError(error)
     THEN \* lines 108-112: cool the endpoint down and go on scanning
          LET cds == [e \in DOMAIN cooldowns \cup {idx[c]} |->
                        IF e = idx[c] THEN now[c] + MODEL_COOLDOWN_SECONDS
                        ELSE cooldowns[e]]
          IN /\ cooldowns' = cds
             /\ last_error' = [last_error EXCEPT ![c] = error]
             /\ limitedUntil' = [limitedUntil EXCEPT ![idx[c]] = now[c] + MODEL_COOLDOWN_SECONDS]
             /\ limitedBy' = [limitedBy EXCEPT ![idx[c]] = ncalls]
             /\ clearedSince' = [clearedSince EXCEPT ![idx[c]] = FALSE]
             /\ ContinueScan(c, i[c] + 1, now[c], cds, error,
                             Ended(tried[c], "error", error), ncalls)
     ELSE \* line 114: raise
          /\ pc' = [pc EXCEPT ![c] = "done"]
          /\ result' = [result EXCEPT ![c] = Raised(error, idx[c])]
          /\ tried' = [tried EXCEPT ![c] = Ended(tried[c], "error", error)]
          /\ UNCHANGED <<cooldowns, last_error, limitedUntil, limitedBy, clearedSince,
                         i, idx, wakeAt>>
  /\ UNCHANGED <<nClients, current_index, clock, now, ncalls, sleeps>>

\* SleepDone without line 123, self._cooldowns.clear()
SleepDoneKeepsCooldowns(c) ==
  /\ pc[c] = "sleeping"
  /\ clock >= wakeAt[c]
  /\ current_index' = 0
  /\ sleeps' = [sleeps EXCEPT ![c] = sleeps[c] + 1]
  /\ idx' = [idx EXCEPT ![c] = 0]
  /\ tried' = [tried EXCEPT ![c] = Append(tried[c], Attempt(0, "retry", ncalls))]
  /\ pc' = [pc EXCEPT ![c] = "await_retry"]
  /\ UNCHANGED <<nClients, clock, now, i, last_error, wakeAt, result, ncalls,
                 limitedUntil, limitedBy, cooldowns, clearedSince>>

\* lines 122-132: the sleep is over; clear the cooldowns, prefer endpoint 0
\* and send the request to it
SleepDone(c) ==
  /\ pc[c] = "sleeping"
  /\ clock >= wakeAt[c]
  /\ cooldowns' = EmptyMap
  /\ current_index' = 0
  /\ clearedSince' = [e \in DOMAIN clearedSince |-> TRUE]
  /\ sleeps' = [sleeps EXCEPT ![c] = sleeps[c] + 1]
  /\ idx' = [idx EXCEPT ![c] = 0]
  /\ tried' = [tried EXCEPT ![c] =
        Append(tried[c], [Attempt(0, "retry", ncalls) EXCEPT !.cleared = TRUE])]
  /\ pc' = [pc EXCEPT ![c] = "await_retry"]
  /\ UNCHANGED <<nClients, clock, now, i, last_error, wakeAt, result, ncalls,
                 limitedUntil, limitedBy>>

\* line 125: the retried request answers
RetryReturnOk(c) ==
  /\ pc[c] = "await_retry"
  /\ pc' = [pc EXCEPT ![c] = "done"]
  /\ result' = [result EXCEPT ![c] = Returned(0)]
  /\ tried' = [tried EXCEPT ![c] = Ended(tried[c], "ok", None)]
  /\ UNCHANGED <<nClients, current_index, cooldowns, clock, now, i, idx, last_error,
                 wakeAt, ncalls, sleeps, limitedUntil, limitedBy, clearedSince>>

\* a retry that, rate-limited again, waits and retries once more
RetryReturnErrorWaitsAgain(c, error) ==
  /\ pc[c] = "await_retry"
  /\ IF IsRateLimitError(error)
     THEN /\ pc' = [pc EXCEPT ![c] = "sleeping"]
          /\ wakeAt' = [wakeAt EXCEPT ![c] = clock + MODEL_RETRY_WAIT_SECONDS]
          /\ UNCHANGED result
     ELSE /\ pc' = [pc EXCEPT ![c] = "done"]
          /\ result' = [result EXCEPT ![c] = Raised(error, 0)]
          /\ UNCHANGED wakeAt
  /\ tried' = [tried EXCEPT ![c] = Ended(tried[c], "error", error)]
  /\ UNCHANGED <<nClients, current_index, cooldowns, clock, now, i, idx, last_error,
                 ncalls, sleeps, limitedUntil, limitedBy, clearedSince>>

\* line 125: the retried request raises; nothing catches it
RetryReturnError(c, error) ==
  /\ pc[c] = "await_retry"
  /\ pc' = [pc EXCEPT ![c] = "done"]
  /\ result' = [result EXCEPT ![c] = Raised(error, 0)]
  /\ tried' = [tried EXCEPT ![c] = Ended(tried[c], "error", error)]
  /\ UNCHANGED <<nClients, current_index, cooldowns, clock, now, i, idx, last_error,
                 wakeAt, ncalls, sleeps, limitedUntil, limitedBy, clearedSince>>

\* time passes
Tick ==
  /\ clock < MaxClock
  /\ clock' = clock + TickSeconds
  /\ UNCHANGED <<nClients, current_index, cooldowns, pc, now, i, idx, last_error,
                 wakeAt, result, ncalls, tried, sleeps, limitedUntil, limitedBy,
                 clearedSince>>

(***************************************************************************)
(* create_stream (lines 140-158)                                           *)
(***************************************************************************)
\* no stream has been asked for
StreamIdle ==
  /\ spc = "idle"
  /\ stream_index = 0
  /\ stream_result = Returned(-1)
  /\ nstreams = 0
  /\ preferredAtCall = 0
  /\ streamRequests = <<>>

\* line 151: the stream of the endpoint at the preferred index is returned
CreateStream ==
  /\ spc \in {"idle", "done"}
  /\ ncalls + nstreams < MaxCalls
  /\ nstreams' = nstreams + 1
  /\ spc' = "open"
  /\ stream_index' = current_index
  /\ stream_result' = Returned(-1)
  /\ preferredAtCall' = current_index
  /\ streamRequests' = <<current_index>>
  /\ UNCHANGED createVars

\* the stream ends with its CreateResult
StreamEndOk ==
  /\ spc = "open"
  /\ spc' = "done"
  /\ stream_result' = Returned(stream_index)
  /\ UNCHANGED <<createVars, stream_index, nstreams, preferredAtCall, streamRequests>>

\* a stream that handles a rate-limit error as create does: it cools the
\* endpoint down and asks the next one
StreamEndErrorFallsBack(error) ==
  /\ spc = "open"
  /\ IF IsRateLimitError(error) /\ nClients > 1
     THEN /\ cooldowns' = [e \in DOMAIN cooldowns \cup {stream_index} |->
                             IF e = stream_index THEN clock + MODEL_COOLDOWN_SECONDS
                             ELSE cooldowns[e]]
          /\ stream_index' = (stream_index + 1) % nClients
          /\ streamRequests' = Append(streamRequests, (stream_index + 1) % nClients)
          /\ UNCHANGED <<spc, stream_result>>
     ELSE /\ spc' = "done"
          /\ stream_result' = Raised(error, stream_index)
          /\ UNCHANGED <<cooldowns, stream_index, streamRequests>>
  /\ UNCHANGED <<nClients, current_index, clock, pc, now, i, idx, last_error, wakeAt,
                 result, ncalls, tried, sleeps, limitedUntil, limitedBy, clearedSince,
                 nstreams, preferredAtCall>>

\* the stream raises error: create_stream has no handler, the consumer gets it
StreamEndError(error) ==
  /\ spc = "open"
  /\ spc' = "done"
  /\ stream_result' = Raised(error, stream_index)
  /\ UNCHANGED <<createVars, stream_index, nstreams, preferredAtCall, streamRequests>>

\* lines 47-65: __init__
RouterInit ==
  /\ StreamIdle
  /\ nClients \in 1..MaxEndpoints
  /\ current_index = 0
  /\ cooldowns = EmptyMap
  /\ clock = 0
  /\ pc = [c \in Callers |-> "idle"]
  /\ now = [c \in Callers |-> 0]
  /\ i = [c \in Callers |-> 0]
  /\ idx = [c \in Callers |-> 0]
  /\ last_error = [c \in Callers |-> None]
  /\ wakeAt = [c \in Callers |-> 0]
  /\ result = [c \in Callers |-> Returned(-1)]
  /\ ncalls = 0
  /\ tried = [c \in Callers |-> <<>>]
  /\ sleeps = [c \in Callers |-> 0]
  /\ limitedUntil = [e \in 0..(nClients - 1) |-> 0]
  /\ limitedBy = [e \in 0..(nClients - 1) |-> 0]
  /\ clearedSince = [e \in 0..(nClients - 1) |-> FALSE]

\* a router nobody calls
RouterIdle == RouterInit /\ nClients = 1

(***************************************************************************)
(* WorkflowBridge: history and fan-out to the subscription queues          *)
(***************************************************************************)
Observers == 1..MaxObservers

\* a ChatMessage (bridge.py lines 15-30); the timestamp is left out
ChatMessage(source, content, msg_type) ==
  [kind |-> "ChatMessage", source |-> source, content |-> content, msg_type |-> msg_type]

\* the dict emit_chunk builds (lines 71-76)
ChunkDict(token) ==
  [kind |-> "dict", source |-> "assistant", content |-> token, msg_type |-> "chunk"]

\* websocket_endpoint and send_task tell the two apart with isinstance
IsChatMessage(item) == item.kind = "ChatMessage"
Durable(items) == SelectSeq(items, IsChatMessage)

Range(f) == { f[x] : x \in DOMAIN f }

\* sub_queue.put(item) for the first registered queue only
PutAllFirstOnly(qs, subs, items) ==
  [o \in DOMAIN qs |-> IF subs # <<>> /\ o = subs[1] THEN qs[o] \o items ELSE qs[o]]

\* for sub_queue in self._subscribers: sub_queue.put(item), for each of items
\* in turn; the queues are unbounded, so put never waits
PutAll(qs, subs, items) ==
  [o \in DOMAIN qs |-> IF o \in Range(subs) THEN qs[o] \o items ELSE qs[o]]

\* emit (lines 58-64), emit_chunk (66-81) and _emit_status (141-152) applied
\* to items in turn without an await in between: a ChatMessage is appended to
\* the history, and every item is put into every registered queue
Publish(items) ==
  /\ messages' = messages \o Durable(items)
  /\ queue' = PutAll(queue, subscribers, items)

\* lines 36-52: __init__
BridgeInit ==
  /\ messages = <<>>
  /\ subscribers = <<>>
  /\ queue = [o \in Observers |-> <<>>]
  /\ nEmitted = 0
  /\ nChunks = 0

\* emit over queues that hold one item at most: put waits for room
EmitWaitsForRoom(source, msg_type) ==
  /\ nEmitted < MaxEmits
  /\ \A o \in Range(subscribers) : Len(queue[o]) < 1
  /\ nEmitted' = nEmitted + 1
  /\ Publish(<<ChatMessage(source, nEmitted + 1, msg_type)>>)
  /\ UNCHANGED <<subscribers, nChunks>>

\* some task calls emit
Emit(source, msg_type) ==
  /\ nEmitted < MaxEmits
  /\ nEmitted' = nEmitted + 1
  /\ Publish(<<ChatMessage(source, nEmitted + 1, msg_type)>>)
  /\ UNCHANGED <<subscribers, nChunks>>

\* emit_chunk that also records the chunk in the history
EmitChunkRecorded ==
  /\ nChunks < MaxChunks
  /\ nChunks' = nChunks + 1
  /\ messages' = Append(messages, ChunkDict(nChunks + 1))
  /\ queue' = PutAll(queue, subscribers, <<ChunkDict(nChunks + 1)>>)
  /\ UNCHANGED <<subscribers, nEmitted>>

\* the model client calls emit_chunk
EmitChunk ==
  /\ nChunks < MaxChunks
  /\ nChunks' = nChunks + 1
  /\ Publish(<<ChunkDict(nChunks + 1)>>)
  /\ UNCHANGED <<subscribers, nEmitted>>

(***************************************************************************)
(* websocket_endpoint (app.py lines 85-165)                                *)
(***************************************************************************)
ObserverInit ==
  /\ opc = [o \in Observers |-> "none"]
  /\ pos = [o \in Observers |-> 0]
  /\ received = [o \in Observers |-> <<>>]
  /\ nReplayed = [o \in Observers |-> 0]
  /\ joinedAt = [o \in Observers |-> 0]

\* lines 88-95: accept, subscribe, and the first send_json of the replay loop
\* (or, with an empty history, the send_json of the status, line 98)
Connect(o) ==
  /\ opc[o] = "none"
  /\ \A earlier \in 1..(o - 1) : opc[earlier] # "none"   \* observers are numbered as they connect
  /\ subscribers' = Append(subscribers, o)
  /\ joinedAt' = [joinedAt EXCEPT ![o] = Len(messages)]
  /\ pos' = [pos EXCEPT ![o] = 1]
  /\ opc' = [opc EXCEPT ![o] = IF messages = <<>> THEN "status" ELSE "replay"]
  /\ UNCHANGED <<messages, queue, nEmitted, nChunks, received, nReplayed>>

\* lines 94-95: send_json(messages[pos]) is done; the list iterator goes on
\* to the next index if the list, as it is now, has one
ReplayStep(o) ==
  /\ opc[o] = "replay"
  /\ received' = [received EXCEPT ![o] = Append(@, messages[pos[o]])]
  /\ nReplayed' = [nReplayed EXCEPT ![o] = @ + 1]
  /\ pos' = [pos EXCEPT ![o] = @ + 1]
  /\ opc' = [opc EXCEPT ![o] = IF pos[o] + 1 <= Len(messages) THEN "replay" ELSE "status"]
  /\ UNCHANGED <<bridgeVars, joinedAt>>

\* lines 98-154: the status is sent; send_task and receive_task start
StatusSent(o) ==
  /\ opc[o] = "status"
  /\ opc' = [opc EXCEPT ![o] = "live"]
  /\ UNCHANGED <<bridgeVars, pos, received, nReplayed, joinedAt>>

\* lines 106-114: send_task takes the next item of the queue and sends it
Deliver(o) ==
  /\ opc[o] = "live"
  /\ queue[o] # <<>>
  /\ received' = [received EXCEPT ![o] = Append(@, Head(queue[o]))]
  /\ queue' = [queue EXCEPT ![o] = Tail(@)]
  /\ UNCHANGED <<messages, subscribers, nEmitted, nChunks, opc, pos, nReplayed, joinedAt>>

\* lines 132-135: unsubscribe
Unsubscribed(subs, o) == SelectSeq(subs, LAMBDA x : x # o)

\* lines 147-165: the socket closes while live; the finally unsubscribes
Disconnect(o) ==
  /\ opc[o] = "live"
  /\ opc' = [opc EXCEPT ![o] = "closed"]
  /\ subscribers' = Unsubscribed(subscribers, o)
  \* the handler returns: its queue and what it sent are gone with it
  /\ queue' = [queue EXCEPT ![o] = <<>>]
  /\ received' = [received EXCEPT ![o] = <<>>]
  /\ nReplayed' = [nReplayed EXCEPT ![o] = 0]
  /\ pos' = [pos EXCEPT ![o] = 0]
  /\ joinedAt' = [joinedAt EXCEPT ![o] = 0]
  /\ UNCHANGED <<messages, nEmitted, nChunks>>

\* lines 94-104: the socket closes during the replay or the status: send_json
\* raises outside the try of line 156, so the queue stays registered
DropInReplay(o) ==
  /\ opc[o] \in {"replay", "status"}
  /\ opc' = [opc EXCEPT ![o] = "dropped"]
  /\ received' = [received EXCEPT ![o] = <<>>]
  /\ nReplayed' = [nReplayed EXCEPT ![o] = 0]
  /\ pos' = [pos EXCEPT ![o] = 0]
  /\ joinedAt' = [joinedAt EXCEPT ![o] = 0]
  /\ UNCHANGED bridgeVars

(***************************************************************************)
(* A web run: workflow_listener (main.py lines 96-139) awaiting the task   *)
(* it created for run_workflow_web (orchestrator.py lines 108-121), the    *)
(* commands of the observers (app.py lines 118-150) and the input          *)
(* rendezvous of the bridge (bridge.py lines 87-111)                       *)
(***************************************************************************)
\* the texts that travel through input_queue: an answer accepting the
\* result, a correction, an empty answer, and the JSON of a start command
Answers == {"ok", "fix", ""}
StartCommand == "{pc_link}"

\* the awaits at which a worker or backend call of the run is outstanding
InFlight == {"figma", "browser", "stage"}

\* the awaits of the workflow task
Suspended == InFlight \cup {"info_wait", "gate_input"}

Sys(content, msg_type) == ChatMessage("system", content, msg_type)

\* the turns of the participants of the stages among items
WorkerTurns(items) == Len(SelectSeq(items, LAMBDA m : m.msg_type = "agent"))

\* log (orchestrator.py lines 178-182) and bridge.emit called by the run,
\* with no observer queue involved in the bookkeeping of emit calls
RunLog(items) ==
  /\ Publish(items)
  /\ UNCHANGED <<subscribers, nEmitted, nChunks>>

\* why run_stream ended: the text the termination condition looks for was
\* mentioned (for the review loops, the approval marker), or the message
\* budget of MaxMessageTermination was used up
StopReasons == {"mention", "budget"}

\* the turn that announces stage st (lines 287, 313, 339, 356)
StageTurn(st) ==
  Sys(CASE st = 1 -> "Stage 1/4" [] st = 2 -> "Stage 2/4"
        [] st = 3 -> "Stage 3/4" [] OTHER -> "Stage 4/4", "stage")

\* build_task_prompt (orchestrator.py lines 40-69): the parts of the task
\* description; given is whether a correction was passed at all, and a
\* correction is folded in only `if correction`, i.e. if it is not empty
build_task_prompt(given, correction) ==
  IF given /\ correction # ""
  THEN <<"design links", "user correction", correction>>
  ELSE <<"design links">>

\* user_input.lower() == "ok" (orchestrator.py line 382)
IsOk(user_input) == user_input \in {"ok", "OK"}

\* the getter by got value from input_queue
Got(by, value) == [by |-> by, value |-> value]

\* asyncio.Queue.get cancelled: the getter leaves the queue's waiters
Without(gs, g) == SelectSeq(gs, LAMBDA x : x # g)

\* a cancellation reported with an error-type turn
OutcomeTurnsStoppedAsError(kind) ==
  IF kind = "stopped" THEN <<Sys("stopped by user", "error")>>
  ELSE IF kind = "error" THEN <<Sys("workflow error", "error")>>
  ELSE <<>>

\* the turns run_workflow_web publishes in its except clauses (lines 113-116)
OutcomeTurns(kind) ==
  IF kind = "stopped" THEN <<Sys("stopped by user", "system")>>
  ELSE IF kind = "error" THEN <<Sys("workflow error", "error")>>
  ELSE <<>>

\* run_workflow_web lines 113-121: the run ends as kind (the exception, if
\* any, was raised at point), after publishing the turns in before and
\* leaving rest in input_queue; an answer the gate took from the queue before
\* that was recorded as a correction unless it was ok (lines 382-389)
Finish(kind, before, point, abort, rest) ==
  /\ RunLog(before \o OutcomeTurns(kind) \o <<Sys("workflow finished", "workflow_complete")>>)
  /\ running' = FALSE
  /\ waiting_for_input' = FALSE
  /\ wpc' = "done"
  /\ workflow_task' = "done"
  /\ cancelPending' = FALSE
  /\ outcome' = kind
  /\ getters' = Without(getters, "gate")
  /\ stoppedAt' = IF kind = "stopped" THEN point ELSE stoppedAt
  /\ aborted' = abort
  /\ input_queue' = rest
  /\ taken' = IF rest = input_queue THEN taken
              ELSE Append(taken, Got("gate", Head(input_queue)))
  /\ user_corrections' = IF rest = input_queue \/ IsOk(Head(input_queue))
                         THEN user_corrections
                         ELSE Append(user_corrections, Head(input_queue))
  /\ task_prompt' = IF rest = input_queue \/ IsOk(Head(input_queue))
                    THEN task_prompt
                    ELSE build_task_prompt(TRUE, Head(input_queue))
  /\ UNCHANGED <<cancel_event, stage, turns, iteration, lpc, thread, coro, nSent,
                 cancelledIn, expired, lateConsumed, stop_reason, provided>>

\* check_cancel (orchestrator.py lines 190-192) raises CancelledError
CheckCancelRaises == cancel_event

\* the workflow task goes on from its await to the next one, at position to
\* with the stage position st, tn, it, after publishing the turns in items
GoOn(to, st, tn, it, items) ==
  /\ RunLog(items)
  /\ wpc' = to
  /\ stage' = st
  /\ turns' = tn
  /\ iteration' = it
  /\ UNCHANGED <<input_queue, getters, running, waiting_for_input, cancel_event,
                 workflow_task, cancelPending, lpc, thread, coro, outcome, nSent,
                 cancelledIn, stoppedAt, aborted, expired, lateConsumed,
                 stop_reason, task_prompt, user_corrections, provided, taken>>

\* run_workflow_web lines 110-112 and _run_workflow_internal up to the await
\* of get_figma_tools (line 207)
RunBegin ==
  /\ wpc = "created"
  /\ ~cancelPending
  /\ running' = TRUE
  /\ cancel_event' = FALSE
  /\ RunLog(<<Sys("connecting Figma MCP", "system")>>)
  /\ wpc' = "figma"
  /\ UNCHANGED <<input_queue, getters, waiting_for_input, workflow_task,
                 cancelPending, stage, turns, iteration, lpc, thread, coro, outcome,
                 nSent, cancelledIn, stoppedAt, aborted, expired, lateConsumed,
                 stop_reason, task_prompt, user_corrections, provided, taken>>

\* lines 207-218: get_figma_tools returned
FigmaReady ==
  /\ wpc = "figma"
  /\ ~cancelPending
  /\ IF CheckCancelRaises
     THEN Finish("stopped", <<Sys("Figma MCP ready", "system")>>, "check_cancel", FALSE, input_queue)
     ELSE GoOn("browser", stage, turns, iteration,
               <<Sys("Figma MCP ready", "system"), Sys("connecting Browser MCP", "system")>>)

\* lines 209-214: get_figma_tools raised
FigmaFailed ==
  /\ wpc = "figma"
  /\ ~cancelPending
  /\ Finish("error", <<Sys("Figma MCP failed", "error")>>, "none", FALSE, input_queue)

\* lines 220-226 and 243-285: get_browser_tools returned; the outer loop is
\* entered and stage 1 is started
BrowserReady ==
  /\ wpc = "browser"
  /\ ~cancelPending
  /\ IF CheckCancelRaises
     THEN Finish("stopped", <<Sys("Browser MCP ready", "system")>>, "check_cancel", FALSE, input_queue)
     ELSE GoOn("stage", 1, 0, 1,
               <<Sys("Browser MCP ready", "system"), Sys("round begins", "system"),
                 StageTurn(1)>>)

\* lines 223-225: get_browser_tools raised
BrowserFailed ==
  /\ wpc = "browser"
  /\ ~cancelPending
  /\ Finish("error", <<Sys("Browser MCP failed", "error")>>, "none", FALSE, input_queue)

\* the participant whose messages a stage forwards
StageSpeaker(st) ==
  CASE st = 1 -> "figma_analyzer"
    [] st = 2 -> "code_writer"
    [] st = 3 -> "code_reviewer"
    [] OTHER -> "result_reviewer"

\* _run_stage lines 146-163: run_stream yields a message of a participant
StageMessage ==
  /\ wpc = "stage"
  /\ ~cancelPending
  /\ WorkerTurns(messages) < MaxTurns
  /\ IF CheckCancelRaises
     THEN Finish("stopped", <<>>, "check_cancel", FALSE, input_queue)
     ELSE GoOn("stage", stage, turns + 1, iteration,
               <<ChatMessage(StageSpeaker(stage), "turn", "agent")>>)

\* a call of a participant of the stage raises (create re-raises an error
\* that is no rate limit, model_client.py line 117); the exception leaves
\* run_stream and reaches `except Exception` of run_workflow_web
StageFailed ==
  /\ wpc = "stage"
  /\ ~cancelPending
  /\ Finish("error", <<>>, "none", FALSE, input_queue)

\* a request for input that does not publish its prompt
InfoRequestUnannounced ==
  /\ wpc = "stage"
  /\ stage = 1
  /\ ~cancelPending
  /\ WorkerTurns(messages) < MaxTurns
  /\ thread = "none"
  /\ coro = "none"
  /\ RunLog(<<>>)
  /\ waiting_for_input' = TRUE
  /\ getters' = Append(getters, "info")
  /\ thread' = "blocked"
  /\ coro' = "waiting"
  /\ wpc' = "info_wait"
  /\ UNCHANGED <<input_queue, running, cancel_event, workflow_task, cancelPending,
                 stage, turns, iteration, lpc, outcome, nSent, cancelledIn,
                 stoppedAt, aborted, expired, lateConsumed,
                 stop_reason, task_prompt, user_corrections, provided, taken>>

\* _web_input_func (orchestrator.py lines 258-260) called by info_gatherer in
\* stage 1: the calling thread schedules bridge.request_input on the loop and
\* blocks in future.result; request_input (bridge.py lines 89-93) runs up to
\* its await of input_queue.get
InfoRequest ==
  /\ wpc = "stage"
  /\ stage = 1
  /\ ~cancelPending
  /\ WorkerTurns(messages) < MaxTurns
  /\ thread = "none"
  /\ coro = "none"
  /\ RunLog(<<Sys("info_gatherer asks", "input_request")>>)
  /\ waiting_for_input' = TRUE
  /\ getters' = Append(getters, "info")
  /\ thread' = "blocked"
  /\ coro' = "waiting"
  /\ wpc' = "info_wait"
  /\ UNCHANGED <<input_queue, running, cancel_event, workflow_task, cancelPending,
                 stage, turns, iteration, lpc, outcome, nSent, cancelledIn,
                 stoppedAt, aborted, expired, lateConsumed,
                 stop_reason, task_prompt, user_corrections, provided, taken>>

\* bridge.py lines 93-97: the request_input scheduled by _web_input_func gets
\* a value from input_queue, publishes it as a user turn and returns it to
\* the future the thread may still be blocked on
InfoTake ==
  /\ coro = "waiting"
  /\ getters # <<>> /\ Head(getters) = "info"
  /\ input_queue # <<>>
  /\ input_queue' = Tail(input_queue)
  /\ getters' = Tail(getters)
  /\ waiting_for_input' = FALSE
  /\ RunLog(<<ChatMessage("user", Head(input_queue), "user")>>)
  /\ coro' = "done"
  /\ thread' = IF thread = "blocked" THEN "returned" ELSE thread
  /\ lateConsumed' = (lateConsumed \/ outcome # "none")
  /\ taken' = Append(taken, [by |-> "info", value |-> Head(input_queue)])
  /\ UNCHANGED <<running, cancel_event, workflow_task, cancelPending, wpc, stage,
                 turns, iteration, lpc, outcome, nSent, cancelledIn, stoppedAt,
                 aborted, expired, stop_reason, task_prompt, user_corrections,
                 provided>>

\* _run_stage lines 146-163: the answer of info_gatherer arrives as a message
InfoAnswered ==
  /\ wpc = "info_wait"
  /\ thread = "returned"
  /\ ~cancelPending
  /\ IF CheckCancelRaises
     THEN /\ Finish("stopped", <<>>, "check_cancel", FALSE, input_queue)
     ELSE /\ RunLog(<<ChatMessage("info_gatherer", "answer", "agent")>>)
          /\ wpc' = "stage"
          /\ turns' = turns + 1
          /\ thread' = "none"
          /\ coro' = "none"
          /\ UNCHANGED <<input_queue, getters, running, waiting_for_input,
                         cancel_event, workflow_task, cancelPending, stage,
                         iteration, lpc, outcome, nSent, cancelledIn, stoppedAt,
                         aborted, expired, lateConsumed,
                 stop_reason, task_prompt, user_corrections, provided, taken>>

\* orchestrator.py line 260: future.result(timeout=600) raises TimeoutError
\* in the thread; the coroutine it waited for is left as it is
InputTimeout ==
  /\ thread = "blocked"
  /\ thread' = "timed_out"
  /\ expired' = TRUE
  /\ UNCHANGED <<bridgeVars, input_queue, getters, running, waiting_for_input,
                 cancel_event, workflow_task, cancelPending, wpc, stage, turns,
                 iteration, lpc, coro, outcome, nSent, cancelledIn, stoppedAt,
                 aborted, lateConsumed,
                 stop_reason, task_prompt, user_corrections, provided, taken>>

\* the TimeoutError of the input function leaves run_stream and reaches
\* `except Exception` of run_workflow_web (lines 115-116)
InfoFailed ==
  /\ wpc = "info_wait"
  /\ thread = "timed_out"
  /\ ~cancelPending
  /\ Finish("error", <<>>, "none", FALSE, input_queue)

\* an error turn for a stage that ended by its budget
BudgetError(reason) ==
  IF reason = "budget" THEN <<Sys("budget exhausted", "error")>> ELSE <<>>

\* a stage that reports the exhaustion of its budget as an error
StageResultBudgetIsAnError ==
  /\ wpc = "stage"
  /\ ~cancelPending
  /\ IF CheckCancelRaises
     THEN Finish("stopped", <<>>, "check_cancel", FALSE, input_queue)
     ELSE \E reason \in StopReasons :
       /\ stop_reason' = [stage |-> stage, reason |-> reason]
       /\ IF stage < 4
          THEN /\ RunLog(BudgetError(reason) \o <<Sys("stage complete", "system"), StageTurn(stage + 1)>>)
               /\ wpc' = "stage"
               /\ stage' = stage + 1
               /\ turns' = 0
               /\ UNCHANGED <<waiting_for_input, getters>>
          ELSE /\ RunLog(BudgetError(reason) \o <<Sys("stage complete", "system"), Sys("all reviews done", "system"),
                            Sys("ok or correction", "input_request")>>)
               /\ waiting_for_input' = TRUE
               /\ getters' = Append(getters, "gate")
               /\ wpc' = "gate_input"
               /\ UNCHANGED <<stage, turns>>
       /\ UNCHANGED <<input_queue, running, cancel_event, workflow_task,
                      cancelPending, iteration, lpc, thread, coro, outcome, nSent,
                      cancelledIn, stoppedAt, aborted, expired, lateConsumed,
                      task_prompt, user_corrections, provided, taken>>

\* a production stage whose success skips the code review
StageResultSkipsReview ==
  /\ wpc = "stage"
  /\ ~cancelPending
  /\ IF CheckCancelRaises
     THEN Finish("stopped", <<>>, "check_cancel", FALSE, input_queue)
     ELSE \E reason \in StopReasons :
       /\ stop_reason' = [stage |-> stage, reason |-> reason]
       /\ IF stage < 4
          THEN /\ RunLog(<<Sys("stage complete", "system"), StageTurn(IF stage = 2 /\ reason = "mention" THEN 4 ELSE stage + 1)>>)
               /\ wpc' = "stage"
               /\ stage' = IF stage = 2 /\ reason = "mention" THEN 4 ELSE stage + 1
               /\ turns' = 0
               /\ UNCHANGED <<waiting_for_input, getters>>
          ELSE /\ RunLog(<<Sys("stage complete", "system"), Sys("all reviews done", "system"),
                            Sys("ok or correction", "input_request")>>)
               /\ waiting_for_input' = TRUE
               /\ getters' = Append(getters, "gate")
               /\ wpc' = "gate_input"
               /\ UNCHANGED <<stage, turns>>
       /\ UNCHANGED <<input_queue, running, cancel_event, workflow_task,
                      cancelPending, iteration, lpc, thread, coro, outcome, nSent,
                      cancelledIn, stoppedAt, aborted, expired, lateConsumed,
                      task_prompt, user_corrections, provided, taken>>

\* _run_stage lines 146-151 and what follows the stage in
\* _run_workflow_internal: run_stream yields the TaskResult; the next stage is
\* started (lines 313-372), or after stage 4 get_input (line 380) runs
\* request_input up to its await of input_queue.get
StageResult ==
  /\ wpc = "stage"
  /\ ~cancelPending
  /\ IF CheckCancelRaises
     THEN Finish("stopped", <<>>, "check_cancel", FALSE, input_queue)
     ELSE \E reason \in StopReasons :
       /\ stop_reason' = [stage |-> stage, reason |-> reason]
       /\ IF stage < 4
          THEN /\ RunLog(<<Sys("stage complete", "system"), StageTurn(stage + 1)>>)
               /\ wpc' = "stage"
               /\ stage' = stage + 1
               /\ turns' = 0
               /\ UNCHANGED <<waiting_for_input, getters>>
          ELSE /\ RunLog(<<Sys("stage complete", "system"), Sys("all reviews done", "system"),
                            Sys("ok or correction", "input_request")>>)
               /\ waiting_for_input' = TRUE
               /\ getters' = Append(getters, "gate")
               /\ wpc' = "gate_input"
               /\ UNCHANGED <<stage, turns>>
       /\ UNCHANGED <<input_queue, running, cancel_event, workflow_task,
                      cancelPending, iteration, lpc, thread, coro, outcome, nSent,
                      cancelledIn, stoppedAt, aborted, expired, lateConsumed,
                      task_prompt, user_corrections, provided, taken>>

\* bridge.py lines 93-97 and orchestrator.py lines 380-389, 244-285: the
\* request_input of the outer gate gets a value; "ok" ends the run, anything
\* else is a correction and the stages are run again
GateTake ==
  /\ wpc = "gate_input"
  /\ ~cancelPending
  /\ getters # <<>> /\ Head(getters) = "gate"
  /\ input_queue # <<>>
  /\ ~IsOk(Head(input_queue)) => iteration < MaxIterations
  /\ LET user_text == Head(input_queue)
         turn == ChatMessage("user", user_text, "user")
     IN IF IsOk(user_text)
        THEN /\ Finish("completed", <<turn, Sys("task done", "system")>>, "none", FALSE, Tail(input_queue))
        ELSE IF CheckCancelRaises
        THEN /\ Finish("stopped", <<turn, Sys("correction recorded", "system")>>,
                       "check_cancel", FALSE, Tail(input_queue))
        ELSE /\ RunLog(<<turn, Sys("correction recorded", "system"),
                          Sys("round begins", "system"), StageTurn(1)>>)
             /\ input_queue' = Tail(input_queue)
             /\ getters' = Tail(getters)
             /\ waiting_for_input' = FALSE
             /\ wpc' = "stage"
             /\ stage' = 1
             /\ turns' = 0
             /\ iteration' = iteration + 1
             /\ taken' = Append(taken, Got("gate", user_text))
             /\ user_corrections' = Append(user_corrections, user_text)
             /\ task_prompt' = build_task_prompt(TRUE, user_text)
             /\ UNCHANGED <<running, cancel_event, workflow_task, cancelPending, lpc,
                            thread, coro, outcome, nSent, cancelledIn, stoppedAt,
                            aborted, expired, lateConsumed, stop_reason, provided>>

\* Task.cancel() takes effect: CancelledError is raised at the await the
\* workflow task is suspended in and reaches `except asyncio.CancelledError`
\* of run_workflow_web (lines 113-114).  A call awaited by the task itself is
\* abandoned; whether the call of a participant of a team is, is up to the
\* team.  A request_input scheduled by _web_input_func is not part of the task.
Cancelled ==
  /\ cancelPending
  /\ wpc \in Suspended
  /\ \E abort \in (IF wpc = "stage" THEN BOOLEAN ELSE {wpc \in InFlight}) :
       Finish("stopped", <<>>, "await", abort, input_queue)

\* main.py lines 128-139 and 100: the task the listener awaits is done; the
\* listener cleans up and waits for the next start command
ListenerTaskDone ==
  /\ lpc = "await_task"
  /\ wpc = "done"
  /\ running' = FALSE
  /\ waiting_for_input' = FALSE
  /\ workflow_task' = "none"
  /\ getters' = Append(getters, "listener")
  /\ lpc' = "idle"
  /\ UNCHANGED <<bridgeVars, input_queue, cancel_event, cancelPending, wpc, stage,
                 turns, iteration, thread, coro, outcome, nSent, cancelledIn,
                 stoppedAt, aborted, expired, lateConsumed,
                 stop_reason, task_prompt, user_corrections, provided, taken>>

\* a listener that takes the next command without awaiting the task it created
ListenerTakeWhileRunning ==
  /\ lpc \in {"idle", "await_task"}
  /\ input_queue # <<>>
  /\ input_queue' = Tail(input_queue)
  /\ taken' = Append(taken, Got("listener", Head(input_queue)))
  /\ IF Head(input_queue) = StartCommand
     THEN /\ cancel_event' = FALSE
          /\ RunLog(<<Sys("workflow starting", "system")>>)
          /\ getters' = Without(getters, "listener")
          /\ lpc' = "dead"
     ELSE /\ UNCHANGED <<bridgeVars, cancel_event, lpc, getters>>
  /\ UNCHANGED <<running, waiting_for_input, workflow_task, cancelPending, wpc,
                 stage, turns, iteration, thread, coro, outcome, nSent, cancelledIn,
                 stoppedAt, aborted, expired, lateConsumed,
                 stop_reason, task_prompt, user_corrections, provided>>

\* main.py lines 100-121: the listener gets a value.  Anything but a start
\* command is dropped (lines 101-107).  A start command is announced, and
\* create_model_client(on_token=...) raises TypeError, the factory having no
\* parameter (model_client.py line 261): the listener task ends.
ListenerTake ==
  /\ lpc = "idle"
  /\ getters # <<>> /\ Head(getters) = "listener"
  /\ input_queue # <<>>
  /\ input_queue' = Tail(input_queue)
  /\ taken' = Append(taken, Got("listener", Head(input_queue)))
  /\ IF Head(input_queue) = StartCommand
     THEN /\ cancel_event' = FALSE
          /\ RunLog(<<Sys("workflow starting", "system")>>)
          /\ getters' = Tail(getters)
          /\ lpc' = "dead"
     ELSE /\ getters' = Append(Tail(getters), "listener")
          /\ UNCHANGED <<bridgeVars, cancel_event, lpc>>
  /\ UNCHANGED <<running, waiting_for_input, workflow_task, cancelPending, wpc,
                 stage, turns, iteration, thread, coro, outcome, nSent, cancelledIn,
                 stoppedAt, aborted, expired, lateConsumed,
                 stop_reason, task_prompt, user_corrections, provided>>

\* app.py lines 126-127: an observer sends {"type": "input", "text": text}
SendInput(text) ==
  /\ nSent < MaxCommands
  /\ nSent' = nSent + 1
  /\ input_queue' = Append(input_queue, text)
  /\ provided' = Append(provided, text)
  /\ UNCHANGED <<bridgeVars, getters, running, waiting_for_input, cancel_event,
                 workflow_task, cancelPending, wpc, stage, turns, iteration, lpc,
                 thread, coro, outcome, cancelledIn, stoppedAt, aborted, expired,
                 lateConsumed, stop_reason, task_prompt, user_corrections, taken>>

\* app.py lines 129-136: an observer sends a start command
SendStart ==
  /\ nSent < MaxCommands
  /\ ~running
  /\ nSent' = nSent + 1
  /\ RunLog(<<Sys("start requested", "system")>>)
  /\ input_queue' = Append(input_queue, StartCommand)
  /\ provided' = Append(provided, StartCommand)
  /\ UNCHANGED <<getters, running, waiting_for_input, cancel_event, workflow_task,
                 cancelPending, wpc, stage, turns, iteration, lpc, thread, coro,
                 outcome, cancelledIn, stoppedAt, aborted, expired, lateConsumed,
                 stop_reason, task_prompt, user_corrections, taken>>

\* a stop that sets the flag and leaves the task alone
SendStopFlagOnly ==
  /\ nSent < MaxCommands
  /\ running
  /\ nSent' = nSent + 1
  /\ cancel_event' = TRUE
  /\ cancelPending' = cancelPending
  /\ RunLog(<<Sys("stopping", "system")>>)
  /\ cancelledIn' = wpc
  /\ UNCHANGED <<input_queue, getters, running, waiting_for_input, workflow_task,
                 wpc, stage, turns, iteration, lpc, thread, coro, outcome,
                 stoppedAt, aborted, expired, lateConsumed,
                 stop_reason, task_prompt, user_corrections, provided, taken>>

\* app.py lines 138-145 and request_cancel (bridge.py lines 107-111): an
\* observer sends a stop command
SendStop ==
  /\ nSent < MaxCommands
  /\ running
  /\ nSent' = nSent + 1
  /\ cancel_event' = TRUE
  /\ cancelPending' = (cancelPending \/ workflow_task = "pending")
  /\ RunLog(<<Sys("stopping", "system")>>)
  /\ cancelledIn' = wpc
  /\ UNCHANGED <<input_queue, getters, running, waiting_for_input, workflow_task,
                 wpc, stage, turns, iteration, lpc, thread, coro, outcome,
                 stoppedAt, aborted, expired, lateConsumed,
                 stop_reason, task_prompt, user_corrections, provided, taken>>

\* main.py lines 117-127: the listener has accepted a start command, created
\* the task of run_workflow_web, registered it with the bridge and awaits it
RunInit ==
  /\ input_queue = <<>>
  /\ getters = <<>>
  /\ running = FALSE
  /\ waiting_for_input = FALSE
  /\ cancel_event = FALSE
  /\ workflow_task = "pending"
  /\ cancelPending = FALSE
  /\ wpc = "created"
  /\ stage = 0
  /\ turns = 0
  /\ iteration = 0
  /\ lpc = "await_task"
  /\ thread = "none"
  /\ coro = "none"
  /\ outcome = "none"
  /\ nSent = 0
  /\ cancelledIn = "none"
  /\ stoppedAt = "none"
  /\ aborted = FALSE
  /\ expired = FALSE
  /\ lateConsumed = FALSE
  /\ stop_reason = [stage |-> 0, reason |-> "none"]
  /\ task_prompt = build_task_prompt(FALSE, "")
  /\ user_corrections = <<>>
  /\ provided = <<StartCommand>>
  /\ taken = <<Got("listener", StartCommand)>>

\* no run: the listener waits for a start command nobody sends
RunIdle ==
  /\ input_queue = <<>>
  /\ getters = <<"listener">>
  /\ running = FALSE
  /\ waiting_for_input = FALSE
  /\ cancel_event = FALSE
  /\ workflow_task = "none"
  /\ cancelPending = FALSE
  /\ wpc = "none"
  /\ stage = 0
  /\ turns = 0
  /\ iteration = 0
  /\ lpc = "idle"
  /\ thread = "none"
  /\ coro = "none"
  /\ outcome = "none"
  /\ nSent = 0
  /\ cancelledIn = "none"
  /\ stoppedAt = "none"
  /\ aborted = FALSE
  /\ expired = FALSE
  /\ lateConsumed = FALSE
  /\ stop_reason = [stage |-> 0, reason |-> "none"]
  /\ task_prompt = build_task_prompt(FALSE, "")
  /\ user_corrections = <<>>
  /\ provided = <<>>
  /\ taken = <<>>

\* the history a run starts with: the turns of app.py line 131 and of
\* main.py line 119
RunBridgeInit ==
  /\ messages = <<Sys("start requested", "system"), Sys("workflow starting", "system")>>
  /\ subscribers = <<>>
  /\ queue = [o \in Observers |-> <<>>]
  /\ nEmitted = 0
  /\ nChunks = 0

(***************************************************************************)
(* SpecRun: one web run, the listener and the commands of the observers    *)
(***************************************************************************)
RunNext ==
  \/ RunBegin /\ UNCHANGED <<routerVars, observerVars, loopVars, selectorVars>>
  \/ FigmaReady /\ UNCHANGED <<routerVars, observerVars, loopVars, selectorVars>>
  \/ FigmaFailed /\ UNCHANGED <<routerVars, observerVars, loopVars, selectorVars>>
  \/ BrowserReady /\ UNCHANGED <<routerVars, observerVars, loopVars, selectorVars>>
  \/ BrowserFailed /\ UNCHANGED <<routerVars, observerVars, loopVars, selectorVars>>
  \/ StageMessage /\ UNCHANGED <<routerVars, observerVars, loopVars, selectorVars>>
  \/ InfoRequest /\ UNCHANGED <<routerVars, observerVars, loopVars, selectorVars>>
  \/ InfoTake /\ UNCHANGED <<routerVars, observerVars, loopVars, selectorVars>>
  \/ InfoAnswered /\ UNCHANGED <<routerVars, observerVars, loopVars, selectorVars>>
  \/ InputTimeout /\ UNCHANGED <<routerVars, observerVars, loopVars, selectorVars>>
  \/ InfoFailed /\ UNCHANGED <<routerVars, observerVars, loopVars, selectorVars>>
  \/ StageFailed /\ UNCHANGED <<routerVars, observerVars, loopVars, selectorVars>>
  \/ StageResult /\ UNCHANGED <<routerVars, observerVars, loopVars, selectorVars>>
  \/ GateTake /\ UNCHANGED <<routerVars, observerVars, loopVars, selectorVars>>
  \/ Cancelled /\ UNCHANGED <<routerVars, observerVars, loopVars, selectorVars>>
  \/ ListenerTaskDone /\ UNCHANGED <<routerVars, observerVars, loopVars, selectorVars>>
  \/ ListenerTake /\ UNCHANGED <<routerVars, observerVars, loopVars, selectorVars>>
  \/ (\E text \in Answers : SendInput(text)) /\ UNCHANGED <<routerVars, observerVars, loopVars, selectorVars>>
  \/ SendStart /\ UNCHANGED <<routerVars, observerVars, loopVars, selectorVars>>
  \/ SendStop /\ UNCHANGED <<routerVars, observerVars, loopVars, selectorVars>>

(***************************************************************************)
(* The speaker selection of create_group_chat (group_chat.py lines 14-57): *)
(* custom_selector_func (group_admin.py lines 66-111), and the model-based *)
(* selection of SelectorGroupChat when it returns None                     *)
(***************************************************************************)
\* `marker in content`, as in TextMentionTermination(marker) and in the
\* selector function: the marker occurs in the content
Mentions(content, marker) == \E k \in 1..Len(content) : content[k] = marker

Sources ==
  {"user", "figma_analyzer", "info_gatherer", "code_writer", "code_reviewer",
   "result_reviewer"}

\* the contents of a message: its words
SelectorContents ==
  { <<"report">>, <<"REVIEW_APPROVED">>, <<"LGTM", "REVIEW_APPROVED">>,
    <<"REVIEW_REJECTED">>, <<"REVIEW_REJECTED", "no", "REVIEW_APPROVED", "yet">>,
    <<"RESULT_APPROVED">>, <<"RESULT_REJECTED">> }

SelectorMessages == [source : Sources, content : SelectorContents]

\* the message sequences of a given length, and up to a given length
ThreadsOfLen(n) == [1..n -> SelectorMessages]
Threads == UNION {ThreadsOfLen(n) : n \in 0..MaxThread}

\* return None
NoDecision == "None"

\* a selector that looks at the first message
custom_selector_func_first(msgs) ==
  IF msgs = <<>> THEN "figma_analyzer"
  ELSE LET last_source == msgs[1].source
           last_content == msgs[1].content
       IN IF last_source = "code_reviewer" /\ Mentions(last_content, "REVIEW_APPROVED")
          THEN "result_reviewer"
          ELSE IF last_source = "code_reviewer" /\ Mentions(last_content, "REVIEW_REJECTED")
          THEN "code_writer"
          ELSE IF last_source = "result_reviewer" /\ Mentions(last_content, "RESULT_REJECTED")
          THEN "code_writer"
          ELSE IF last_source = "code_writer"
          THEN "code_reviewer"
          ELSE NoDecision

\* group_admin.py lines 78-111
custom_selector_func(msgs) ==
  IF msgs = <<>> THEN "figma_analyzer"
  ELSE LET last_msg == msgs[Len(msgs)]
           last_source == last_msg.source
           last_content == last_msg.content
       IN IF last_source = "code_reviewer" /\ Mentions(last_content, "REVIEW_APPROVED")
          THEN "result_reviewer"
          ELSE IF last_source = "code_reviewer" /\ Mentions(last_content, "REVIEW_REJECTED")
          THEN "code_writer"
          ELSE IF last_source = "result_reviewer" /\ Mentions(last_content, "RESULT_REJECTED")
          THEN "code_writer"
          ELSE IF last_source = "code_writer"
          THEN "code_reviewer"
          ELSE NoDecision

\* the conditions of the four if statements (lines 90, 94, 101, 105), in the
\* order of the code, and what each returns
RuleConditions(last_msg) ==
  << last_msg.source = "code_reviewer" /\ Mentions(last_msg.content, "REVIEW_APPROVED"),
     last_msg.source = "code_reviewer" /\ Mentions(last_msg.content, "REVIEW_REJECTED"),
     last_msg.source = "result_reviewer" /\ Mentions(last_msg.content, "RESULT_REJECTED"),
     last_msg.source = "code_writer" >>

RuleReturns == <<"result_reviewer", "code_writer", "code_writer", "code_reviewer">>

\* the rules whose condition holds for a last message
Matching(last_msg) == { r \in 1..4 : RuleConditions(last_msg)[r] }

\* a selection is asked for some message sequence
SelectorInit ==
  /\ conversation \in Threads
  /\ decision = "pending"
  /\ fallbacks = 0

SelectorIdle ==
  /\ conversation = <<>>
  /\ decision = "pending"
  /\ fallbacks = 0

\* the selector function decides
SelectDirectly ==
  /\ decision = "pending"
  /\ custom_selector_func(conversation) # NoDecision
  /\ decision' = custom_selector_func(conversation)
  /\ UNCHANGED <<conversation, fallbacks>>

\* the selector function returns None: the model-based selection is invoked
SelectByFallback ==
  /\ decision = "pending"
  /\ custom_selector_func(conversation) = NoDecision
  /\ decision' = NoDecision
  /\ fallbacks' = fallbacks + 1
  /\ UNCHANGED conversation

SelectorNext ==
  \/ SelectDirectly /\ UNCHANGED <<routerVars, bridgeVars, observerVars, loopVars, runVars>>
  \/ SelectByFallback /\ UNCHANGED <<routerVars, bridgeVars, observerVars, loopVars, runVars>>

(***************************************************************************)
(* SpecBridge: observers connecting to a bridge that is being published to *)
(***************************************************************************)
BridgeNext ==
  \/ Emit("code_writer", "agent") /\ UNCHANGED <<routerVars, observerVars, loopVars, runVars, selectorVars>>
  \/ EmitChunk /\ UNCHANGED <<routerVars, observerVars, loopVars, runVars, selectorVars>>
  \/ (\E o \in Observers : Connect(o)) /\ UNCHANGED <<routerVars, loopVars, runVars, selectorVars>>
  \/ (\E o \in Observers : ReplayStep(o)) /\ UNCHANGED <<routerVars, loopVars, runVars, selectorVars>>
  \/ (\E o \in Observers : StatusSent(o)) /\ UNCHANGED <<routerVars, loopVars, runVars, selectorVars>>
  \/ (\E o \in Observers : Deliver(o)) /\ UNCHANGED <<routerVars, loopVars, runVars, selectorVars>>
  \/ (\E o \in Observers : Disconnect(o)) /\ UNCHANGED <<routerVars, loopVars, runVars, selectorVars>>
  \/ (\E o \in Observers : DropInReplay(o)) /\ UNCHANGED <<routerVars, loopVars, runVars, selectorVars>>


(***************************************************************************)
(* The reflection loops: a RoundRobinGroupChat of two participants that    *)
(* ends on TextMentionTermination(marker) | MaxMessageTermination(2 * N)   *)
(***************************************************************************)
\* what a turn says: the words of its content
Contents ==
  { <<"LGTM", "REVIEW_APPROVED">>, <<"RESULT_APPROVED">>, <<"REVIEW_REJECTED", "fix">>,
    <<"RESULT_REJECTED", "0.50">> }

\* reflection.py lines 16-48
create_code_review_loop(max_rounds) ==
  [participants |-> <<"code_writer", "code_reviewer">>,
   marker |-> "REVIEW_APPROVED", max_rounds |-> max_rounds]

\* reflection.py lines 51-83
create_result_review_loop(max_rounds) ==
  [participants |-> <<"code_writer", "result_reviewer">>,
   marker |-> "RESULT_APPROVED", max_rounds |-> max_rounds]

\* orchestrator.py lines 341-349: stage 3
review_team ==
  [participants |-> <<"code_reviewer", "code_writer">>,
   marker |-> "REVIEW_APPROVED", max_rounds |-> MAX_REFLECTION_ROUNDS]

\* orchestrator.py lines 360-367: stage 4
result_team ==
  [participants |-> <<"result_reviewer", "code_writer">>,
   marker |-> "RESULT_APPROVED", max_rounds |-> MAX_REFLECTION_ROUNDS]

Teams ==
  { create_code_review_loop(n) : n \in 1..MaxRounds }
    \cup { create_result_review_loop(n) : n \in 1..MaxRounds }
    \cup { review_team, result_team }

\* a budget of one round too many
MaxMessagesOneRoundMore(t) == (t.max_rounds + 1) * 2

\* MaxMessageTermination(max_rounds * 2)
MaxMessages(t) == t.max_rounds * 2

\* the participant whose turn it is: round robin
Speaker == team.participants[(Len(transcript) % Len(team.participants)) + 1]

\* The loop starts.  The task message is part of the conversation; whether
\* the team counts it towards MaxMessageTermination is not settled by the
\* code of the repository, so both are possible.
LoopInit ==
  /\ team \in Teams
  /\ transcript = <<>>
  /\ counted \in {0, 1}
  /\ lstate = "running"

LoopIdle ==
  /\ team = review_team
  /\ transcript = <<>>
  /\ counted = 0
  /\ lstate = "terminated"

\* the participant whose turn it is answers with content; the termination
\* condition is evaluated on the new message
AgentTurn(content) ==
  /\ lstate = "running"
  /\ transcript' = Append(transcript, [source |-> Speaker, content |-> content])
  /\ counted' = counted + 1
  /\ lstate' = IF Mentions(content, team.marker) \/ counted + 1 >= MaxMessages(team)
               THEN "terminated" ELSE "running"
  /\ UNCHANGED team

LoopNext ==
  \E content \in Contents :
    AgentTurn(content) /\ UNCHANGED <<routerVars, bridgeVars, observerVars, runVars, selectorVars>>

\* the bridge and its observers alone
BridgeStart == RouterIdle /\ BridgeInit /\ ObserverInit /\ LoopIdle /\ RunIdle /\ SelectorIdle

SpecBridge == BridgeStart /\ [][BridgeNext]_vars

(***************************************************************************)
(* SpecApi: the methods of WorkflowBridge that touch the history and the   *)
(* subscriptions, called in any order by any caller, clear and reset       *)
(* included (nothing in the repository calls those two)                    *)
(***************************************************************************)
\* the dict _emit_status builds (bridge.py lines 143-150); the flags and the
\* timestamp are left out
StatusDict ==
  [kind |-> "dict", source |-> "system", content |-> 0, msg_type |-> "status"]

IsStatus(item) == item.msg_type = "status"

\* bridge.py lines 141-152: _emit_status
EmitStatus ==
  /\ Publish(<<StatusDict>>)
  /\ UNCHANGED <<subscribers, nEmitted, nChunks>>

\* bridge.py lines 162-164: clear
clear ==
  /\ messages' = <<>>
  /\ UNCHANGED <<subscribers, queue, nEmitted, nChunks>>

\* bridge.py lines 166-178: reset
reset ==
  /\ messages' = <<>>
  /\ running' = FALSE
  /\ waiting_for_input' = FALSE
  /\ cancel_event' = FALSE
  /\ workflow_task' = "none"
  /\ input_queue' = <<>>
  /\ UNCHANGED <<subscribers, queue, nEmitted, nChunks>>
  /\ UNCHANGED <<getters, cancelPending, wpc, stage, turns, iteration, lpc, thread,
                 coro, outcome, nSent, cancelledIn, stoppedAt, aborted, expired,
                 lateConsumed, stop_reason, task_prompt, user_corrections, provided,
                 taken>>

\* bridge.py lines 126-130: subscribe creates the queue of o and registers
\* it; opc[o] tells whether the queue exists ("live") and whether unsubscribe
\* was called for it ("closed")
subscribe(o) ==
  /\ opc[o] = "none"
  /\ \A earlier \in 1..(o - 1) : opc[earlier] # "none"
  /\ subscribers' = Append(subscribers, o)
  /\ joinedAt' = [joinedAt EXCEPT ![o] = Len(messages)]
  /\ opc' = [opc EXCEPT ![o] = "live"]
  /\ UNCHANGED <<messages, queue, nEmitted, nChunks, pos, received, nReplayed>>

\* unsubscribe that takes the first registered queue out, whichever it is
unsubscribeFirst(o) ==
  /\ opc[o] \in {"live", "closed"}
  /\ subscribers' = IF subscribers = <<>> THEN subscribers ELSE Tail(subscribers)
  /\ opc' = [opc EXCEPT ![o] = "closed"]
  /\ UNCHANGED <<messages, queue, nEmitted, nChunks, pos, received, nReplayed, joinedAt>>

\* bridge.py lines 132-135: unsubscribe, for a queue that subscribe returned,
\* be it registered or not
unsubscribe(o) ==
  /\ opc[o] \in {"live", "closed"}
  /\ subscribers' = IF o \in Range(subscribers) THEN Unsubscribed(subscribers, o)
                    ELSE subscribers
  /\ opc' = [opc EXCEPT ![o] = "closed"]
  /\ UNCHANGED <<messages, queue, nEmitted, nChunks, pos, received, nReplayed, joinedAt>>

\* no queue holds more than a few items nobody takes, and the callers publish
\* a few turns and chunks between them
Room ==
  /\ \A o \in Observers : Len(queue[o]) < MaxQueued
  /\ nEmitted + nChunks < MaxEmits

ApiNext ==
  \/ (Room /\ Emit("code_writer", "agent")) /\ UNCHANGED <<routerVars, observerVars, loopVars, runVars, selectorVars>>
  \/ (Room /\ EmitChunk) /\ UNCHANGED <<routerVars, observerVars, loopVars, runVars, selectorVars>>
  \/ (Room /\ EmitStatus) /\ UNCHANGED <<routerVars, observerVars, loopVars, runVars, selectorVars>>
  \/ clear /\ UNCHANGED <<routerVars, observerVars, loopVars, runVars, selectorVars>>
  \/ reset /\ UNCHANGED <<routerVars, observerVars, loopVars, selectorVars>>
  \/ (\E o \in Observers : subscribe(o)) /\ UNCHANGED <<routerVars, loopVars, runVars, selectorVars>>
  \/ (\E o \in Observers : unsubscribe(o)) /\ UNCHANGED <<routerVars, loopVars, runVars, selectorVars>>

SpecApi == BridgeStart /\ [][ApiNext]_vars

\* a reflection loop alone
LoopStart == RouterIdle /\ BridgeInit /\ ObserverInit /\ LoopInit /\ RunIdle /\ SelectorIdle

SpecLoop == LoopStart /\ [][LoopNext]_vars

\* a web run alone
RunStart == RouterIdle /\ RunBridgeInit /\ ObserverInit /\ LoopIdle /\ RunInit /\ SelectorIdle

SpecRun == RunStart /\ [][RunNext]_vars

\* the steps of workflow_listener (main.py lines 96-139)
ListenerStep ==
  (ListenerTaskDone \/ ListenerTake) /\ UNCHANGED <<routerVars, observerVars, loopVars, selectorVars>>

\* a web run on an event loop that runs every task that is ready: the
\* listener is resumed when the task it awaits is done and when a value it
\* waits for is in the queue
SpecRunFair == SpecRun /\ WF_vars(ListenerStep)

\* the speaker selection alone
SelectorStart ==
  RouterIdle /\ BridgeInit /\ ObserverInit /\ LoopIdle /\ RunIdle /\ SelectorInit

SpecSelector == SelectorStart /\ [][SelectorNext]_vars

(***************************************************************************)
(* Spec: the router under the sequential create calls of the pipeline      *)
(***************************************************************************)
Init == RouterInit /\ BridgeInit /\ ObserverInit /\ LoopIdle /\ RunIdle /\ SelectorIdle

Next ==
  \/ (\E c \in Sequential : CreateBegin(c)) /\ UNCHANGED <<streamVars, bridgeVars, observerVars, loopVars, runVars, selectorVars>>
  \/ (\E c \in Sequential : ScanReturnOk(c)) /\ UNCHANGED <<streamVars, bridgeVars, observerVars, loopVars, runVars, selectorVars>>
  \/ (\E c \in Sequential, error \in Errors : ScanReturnError(c, error))
        /\ UNCHANGED <<streamVars, bridgeVars, observerVars, loopVars, runVars, selectorVars>>
  \/ (\E c \in Sequential : SleepDone(c)) /\ UNCHANGED <<streamVars, bridgeVars, observerVars, loopVars, runVars, selectorVars>>
  \/ (\E c \in Sequential : RetryReturnOk(c)) /\ UNCHANGED <<streamVars, bridgeVars, observerVars, loopVars, runVars, selectorVars>>
  \/ (\E c \in Sequential, error \in Errors : RetryReturnError(c, error))
        /\ UNCHANGED <<streamVars, bridgeVars, observerVars, loopVars, runVars, selectorVars>>
  \/ Tick /\ UNCHANGED <<streamVars, bridgeVars, observerVars, loopVars, runVars, selectorVars>>

Spec == Init /\ [][Next]_vars

(***************************************************************************)
(* SpecStream: the router under sequential create and create_stream calls  *)
(***************************************************************************)
\* the one caller is in no create call
NoCreateInFlight == \A c \in Sequential : pc[c] \in {"idle", "done"}

StreamNext ==
  \/ (\E c \in Sequential : CreateBegin(c)) /\ spc # "open" /\ ncalls + nstreams < MaxCalls
        /\ UNCHANGED <<streamVars, bridgeVars, observerVars, loopVars, runVars, selectorVars>>
  \/ (\E c \in Sequential : ScanReturnOk(c)) /\ UNCHANGED <<streamVars, bridgeVars, observerVars, loopVars, runVars, selectorVars>>
  \/ (\E c \in Sequential, error \in Errors : ScanReturnError(c, error))
        /\ UNCHANGED <<streamVars, bridgeVars, observerVars, loopVars, runVars, selectorVars>>
  \/ (\E c \in Sequential : SleepDone(c)) /\ UNCHANGED <<streamVars, bridgeVars, observerVars, loopVars, runVars, selectorVars>>
  \/ (\E c \in Sequential : RetryReturnOk(c)) /\ UNCHANGED <<streamVars, bridgeVars, observerVars, loopVars, runVars, selectorVars>>
  \/ (\E c \in Sequential, error \in Errors : RetryReturnError(c, error))
        /\ UNCHANGED <<streamVars, bridgeVars, observerVars, loopVars, runVars, selectorVars>>
  \/ Tick /\ UNCHANGED <<streamVars, bridgeVars, observerVars, loopVars, runVars, selectorVars>>
  \/ (NoCreateInFlight /\ CreateStream) /\ UNCHANGED <<bridgeVars, observerVars, loopVars, runVars, selectorVars>>
  \/ StreamEndOk /\ UNCHANGED <<bridgeVars, observerVars, loopVars, runVars, selectorVars>>
  \/ (\E error \in Errors : StreamEndError(error))
        /\ UNCHANGED <<bridgeVars, observerVars, loopVars, runVars, selectorVars>>

SpecStream == Init /\ [][StreamNext]_vars

(***************************************************************************)
(* SpecOverlap: the router under create calls of two callers that overlap  *)
(***************************************************************************)
OverlapNext ==
  \/ (\E c \in Callers : CreateBegin(c)) /\ ncalls < MaxOverlapCalls
        /\ UNCHANGED <<streamVars, bridgeVars, observerVars, loopVars, runVars, selectorVars>>
  \/ (\E c \in Callers : ScanReturnOk(c)) /\ UNCHANGED <<streamVars, bridgeVars, observerVars, loopVars, runVars, selectorVars>>
  \/ (\E c \in Callers, error \in Errors : ScanReturnError(c, error))
        /\ UNCHANGED <<streamVars, bridgeVars, observerVars, loopVars, runVars, selectorVars>>
  \/ (\E c \in Callers : SleepDone(c)) /\ UNCHANGED <<streamVars, bridgeVars, observerVars, loopVars, runVars, selectorVars>>
  \/ (\E c \in Callers : RetryReturnOk(c)) /\ UNCHANGED <<streamVars, bridgeVars, observerVars, loopVars, runVars, selectorVars>>
  \/ (\E c \in Callers, error \in Errors : RetryReturnError(c, error))
        /\ UNCHANGED <<streamVars, bridgeVars, observerVars, loopVars, runVars, selectorVars>>
  \/ Tick /\ UNCHANGED <<streamVars, bridgeVars, observerVars, loopVars, runVars, selectorVars>>

\* a router of few endpoints
OverlapInit == Init /\ nClients <= MaxOverlapEndpoints

SpecOverlap == OverlapInit /\ [][OverlapNext]_vars

(***************************************************************************)
(* Claims about FallbackChatCompletionClient.create, checked under Spec    *)
(***************************************************************************)
Last(s) == s[Len(s)]
Limited(a) == a.out = "error" /\ IsRateLimitError(a.error)
ScanAttempts(c) == { k \in 1..Len(tried[c]) : tried[c][k].phase = "scan" }
RetryAttempts(c) == { k \in 1..Len(tried[c]) : tried[c][k].phase = "retry" }

\* A scan attempt k that answered after every scan attempt before it was
\* rate-limited: the call returned the response of that endpoint, made it the
\* preferred endpoint and attempted nothing after it.
ReturnsFirstSuccess(c) ==
  \A k \in ScanAttempts(c) :
    (tried[c][k].out = "ok" /\ \A m \in 1..(k - 1) : Limited(tried[c][m]))
      => /\ pc[c] = "done"
         /\ result[c] = Returned(tried[c][k].idx)
         /\ current_index = tried[c][k].idx
         /\ k = Len(tried[c])

\* C1 as stated: the endpoint answering after rate-limited ones gives the
\* result of the call, and no call sends a request to an endpoint that an
\* earlier call found rate-limited before the deadline of that cooldown.
C1_ExcludedUntilCooldownElapses ==
  \A c \in Callers :
    /\ ReturnsFirstSuccess(c)
    /\ \A k \in 1..Len(tried[c]) : ~tried[c][k].early

\* C1 as amended: the same, except that an endpoint may be attempted before
\* its deadline once the cooldown map has been cleared, which only the retry
\* after an all-rate-limited scan does, just before it attempts endpoint 0.
C1_ExcludedUntilCooldownElapsesOrCleared ==
  \A c \in Callers :
    /\ ReturnsFirstSuccess(c)
    /\ \A k \in 1..Len(tried[c]) :
         /\ tried[c][k].early => tried[c][k].cleared
         /\ (tried[c][k].early /\ tried[c][k].phase = "retry") => tried[c][k].idx = 0

\* a second or later call skipped an endpoint that an earlier call had found
\* rate-limited, found the next one rate-limited and got its answer from the
\* one after it
C1_Witness ==
  \E c \in Callers, e \in 0..(nClients - 1) :
    /\ pc[c] = "done" /\ result[c].kind = "ok"
    /\ Len(tried[c]) = 2 /\ Limited(tried[c][1]) /\ tried[c][2].phase = "scan"
    /\ i[c] = 2
    /\ Cooling(e, now[c], cooldowns) /\ limitedBy[e] < ncalls /\ ~clearedSince[e]
    /\ \A k \in 1..2 : tried[c][k].idx # e

\* C2 as stated: whatever create raises is not a rate-limit error.
C2_NeverSurfacesRateLimit ==
  \A c \in Callers :
    (pc[c] = "done" /\ result[c].kind = "raise") => ~IsRateLimitError(result[c].error)

\* every request of the scan has ended rate-limited (and there was one)
AllScanLimited(c) ==
  /\ ScanAttempts(c) # {}
  /\ \A k \in ScanAttempts(c) : Limited(tried[c][k])

\* C3: a call whose scan attempts were all rate-limited sleeps once, then
\* clears the cooldown map, prefers endpoint 0 and makes one more attempt,
\* whose outcome is the outcome of the call; no other call sleeps or retries.
C3_AllLimitedSleepOnceRetryOnce ==
  \A c \in Callers :
    /\ AllScanLimited(c) =>
         /\ pc[c] \in {"sleeping", "await_retry", "done"}
         /\ pc[c] = "sleeping" => (sleeps[c] = 0 /\ RetryAttempts(c) = {}
                                     /\ wakeAt[c] >= now[c] + MODEL_RETRY_WAIT_SECONDS)
         /\ pc[c] # "sleeping" =>
              /\ sleeps[c] = 1
              /\ clock >= now[c] + MODEL_RETRY_WAIT_SECONDS
              /\ RetryAttempts(c) = {Len(tried[c])}
         /\ pc[c] = "await_retry" => (cooldowns = EmptyMap /\ current_index = 0)
         /\ pc[c] = "done" =>
              /\ Last(tried[c]).out # "pending"
              /\ result[c] = IF Last(tried[c]).out = "ok"
                              THEN Returned(Last(tried[c]).idx)
                              ELSE Raised(Last(tried[c]).error, Last(tried[c]).idx)
    /\ ~AllScanLimited(c) => (sleeps[c] = 0 /\ RetryAttempts(c) = {})

\* a call that slept and retried has ended with the outcome of its retry
C3_Witness ==
  \E c \in Callers :
    /\ pc[c] = "done" /\ AllScanLimited(c) /\ Len(tried[c]) = nClients + 1
    /\ nClients > 1 /\ sleeps[c] = 1

\* the request of call c ends in this step with error
EndsWith(c, error) ==
  /\ pc[c] \in {"await_scan", "await_retry"}
  /\ Len(tried'[c]) >= Len(tried[c])
  /\ tried'[c][Len(tried[c])].out = "error"
  /\ tried'[c][Len(tried[c])].error = error

\* C4: when a request ends with an error that is not a rate-limit error, the
\* call ends at once raising that error: no further attempt, no sleep, and
\* the preferred index and the cooldown map are as they were.
C4_TerminalErrorRaisedAtOnce ==
  [][\A c \in Callers : \A error \in Errors :
       (EndsWith(c, error) /\ ~IsRateLimitError(error)) =>
          /\ pc'[c] = "done"
          /\ result'[c] = Raised(error, idx[c])
          /\ Len(tried'[c]) = Len(tried[c])
          /\ sleeps'[c] = sleeps[c]
          /\ (pc[c] = "await_scan" => sleeps'[c] = 0)
          /\ current_index' = current_index
          /\ cooldowns' = cooldowns]_vars

\* a scan request ended with a non-rate-limit error after an earlier endpoint
\* of the same scan was rate-limited, with endpoints left to try
C4_Witness ==
  \E c \in Callers :
    /\ pc[c] = "done" /\ result[c].kind = "raise"
    /\ ~IsRateLimitError(result[c].error)
    /\ Len(tried[c]) = 2 /\ Limited(tried[c][1]) /\ tried[c][2].phase = "scan"
    /\ nClients = 3 /\ i[c] = 1
    /\ DOMAIN cooldowns = {tried[c][1].idx}


(***************************************************************************)
(* Claims about the fan-out of the bridge, checked under SpecBridge        *)
(***************************************************************************)
Connected(o) == opc[o] \in {"replay", "status", "live"}

\* C5 as stated: what a connected observer has been sent, chunks and status
\* aside, is at every moment a prefix of the history: the turns published
\* before it connected come first and in order, then the later ones, none
\* missing and none twice.
C5_LateJoinerExactlyOnce ==
  \A o \in Observers :
    Connected(o) =>
      LET d == Durable(received[o])
      IN Len(d) <= Len(messages) /\ d = SubSeq(messages, 1, Len(d))

\* what send_task has taken out of the queue of o so far
Taken(o) == SubSeq(received[o], nReplayed[o] + 1, Len(received[o]))

\* C6: for every registered queue with a running handler, the durable turns
\* taken out of it so far followed by those still in it are exactly the turns
\* emitted since it was registered, in the order of the history.
C6_QueueOrderIsPublishOrder ==
  \A o \in Observers :
    (Connected(o) /\ o \in Range(subscribers)) =>
      Durable(Taken(o) \o queue[o]) = SubSeq(messages, joinedAt[o] + 1, Len(messages))

\* two observers subscribed before the first emit, each has been delivered
\* the whole history of at least two turns, a chunk in between
C6_Witness ==
  \E o1, o2 \in Observers :
    /\ o1 # o2
    /\ \A o \in {o1, o2} :
         /\ opc[o] = "live" /\ joinedAt[o] = 0 /\ queue[o] = <<>>
         /\ Durable(received[o]) = messages
         /\ Len(received[o]) > Len(messages)
    /\ Len(messages) >= 2


\* C7: when request_cancel is called while the workflow is suspended in
\* request_input (the outer gate, or the input function of info_gatherer),
\* the run ends as stopped, no input request is left pending on the input
\* queue, and no request takes a value after the run has ended.
C7_CancelDestroysPendingInput ==
  (cancelledIn \in {"info_wait", "gate_input"} /\ outcome # "none") =>
     /\ outcome = "stopped"
     /\ coro # "waiting"
     /\ "info" \notin Range(getters)
     /\ "gate" \notin Range(getters)
     /\ ~lateConsumed

\* C8: a stop that arrives while a worker or backend call is outstanding
\* takes effect at a check_cancel between turns, and the call is not
\* abandoned.
C8_StopTakesEffectAtCheckPoint ==
  (cancelledIn \in InFlight /\ outcome = "stopped") =>
     (stoppedAt = "check_cancel" /\ ~aborted)

\* C9: a run in which a wait for human input ran into its time bound ends
\* as stopped.
C9_ExpiredWaitEndsAsStopped ==
  (expired /\ outcome # "none") => outcome = "stopped"

\* C10: a reflection loop is bounded: with a round limit N it never holds
\* more than 2 * N turns of its participants, it cannot go on once the
\* message budget of 2 * N is used up, and it ends at the latest with the
\* turn that uses it up.
C10_LoopBoundedByTwiceTheRounds ==
  /\ Len(transcript) <= 2 * team.max_rounds
  /\ counted <= 2 * team.max_rounds
  /\ counted >= 2 * team.max_rounds => lstate = "terminated"
  /\ lstate = "running" => Len(transcript) < 2 * team.max_rounds

\* a loop that nobody approved and that the message budget ended
C10_Witness ==
  /\ lstate = "terminated"
  /\ Len(transcript) = 2 * team.max_rounds
  /\ team.max_rounds >= 2
  /\ \A k \in 1..Len(transcript) : ~Mentions(transcript[k].content, team.marker)


\* the turns of the transcript that source has taken
TurnsOf(source) ==
  Cardinality({k \in 1..Len(transcript) : transcript[k].source = source})

\* the loop ended with no turn mentioning the approval marker
ForcedPass ==
  /\ lstate = "terminated"
  /\ \A k \in 1..Len(transcript) : ~Mentions(transcript[k].content, team.marker)

\* the critic of the fidelity loop rejects in every one of its turns
CriticAlwaysRejects ==
  \A k \in 1..Len(transcript) :
    transcript[k].source = "result_reviewer" =>
      /\ Mentions(transcript[k].content, "RESULT_REJECTED")
      /\ ~Mentions(transcript[k].content, team.marker)

\* C11: a fidelity loop with max_rounds = 3 whose critic rejects in every
\* turn ends after exactly 3 producer turns and 3 critic turns, as a forced
\* pass.
C11_RejectingCriticRunsThreeFullRounds ==
  (/\ team.marker = "RESULT_APPROVED"
   /\ team.max_rounds = 3
   /\ lstate = "terminated"
   /\ CriticAlwaysRejects)
  => (/\ TurnsOf("code_writer") = 3
      /\ TurnsOf("result_reviewer") = 3
      /\ ForcedPass)


\* C12: when the code-review or the fidelity-review stage ends, be it by
\* approval or by exhaustion of its budget, the run goes on: it has not
\* ended, the step publishes no error turn, and after stage 3 stage 4 is
\* started, after stage 4 the input request of the outer gate is published.
C12_ForcedPassProceeds ==
  [][(stop_reason' # stop_reason /\ stop_reason'.stage \in {3, 4}) =>
       /\ stop_reason'.reason \in {"mention", "budget"}
       /\ outcome' = "none"
       /\ running'
       /\ \A k \in (Len(messages) + 1)..Len(messages') : messages'[k].msg_type # "error"
       /\ IF stop_reason'.stage = 3
          THEN /\ wpc' = "stage"
               /\ stage' = 4
               /\ messages'[Len(messages')] = StageTurn(4)
          ELSE /\ wpc' = "gate_input"
               /\ waiting_for_input'
               /\ messages'[Len(messages')].msg_type = "input_request"]_vars

\* the fidelity-review stage ended by its budget and the run was completed
C12_Witness ==
  /\ outcome = "completed"
  /\ stop_reason = [stage |-> 4, reason |-> "budget"]
  /\ \A k \in 1..Len(messages) : messages[k].msg_type # "error"


Final(msgs) == msgs[Len(msgs)]

\* C13: for a message sequence whose last turn is a code_reviewer turn that
\* contains REVIEW_REJECTED, or a result_reviewer turn that contains
\* RESULT_REJECTED, the selector function returns code_writer and the
\* model-based selection is not invoked.
C13_RejectionSelectsProducer ==
  (/\ decision # "pending"
   /\ conversation # <<>>
   /\ \/ /\ Final(conversation).source = "code_reviewer"
         /\ Mentions(Final(conversation).content, "REVIEW_REJECTED")
      \/ /\ Final(conversation).source = "result_reviewer"
         /\ Mentions(Final(conversation).content, "RESULT_REJECTED"))
  => (decision = "code_writer" /\ fallbacks = 0)

\* the markers a content mentions
MarkersIn(content) ==
  {mk \in {"REVIEW_APPROVED", "REVIEW_REJECTED", "RESULT_APPROVED", "RESULT_REJECTED"} :
     Mentions(content, mk)}

\* the last turn matches none of the rules of the selector function
MatchesNoRule(msg) ==
  /\ msg.source # "code_writer"
  /\ ~(msg.source = "code_reviewer" /\ MarkersIn(msg.content) \cap
         {"REVIEW_APPROVED", "REVIEW_REJECTED"} # {})
  /\ ~(msg.source = "result_reviewer" /\ "RESULT_REJECTED" \in MarkersIn(msg.content))

\* C14: the decision of the selector function depends on the last turn only,
\* and of that on its source and on the markers it contains; an empty
\* sequence selects figma_analyzer, a code_reviewer turn with REVIEW_APPROVED
\* result_reviewer, a code_writer turn code_reviewer, and a last turn that
\* matches no rule gets no decision and goes to the model-based selection.
C14_DecisionFromLastTurnOnly ==
  decision # "pending" =>
    /\ conversation = <<>> => decision = "figma_analyzer"
    /\ conversation # <<>> =>
         /\ decision = custom_selector_func(<<Final(conversation)>>)
         /\ \A content \in SelectorContents :
              MarkersIn(content) = MarkersIn(Final(conversation).content) =>
                decision = custom_selector_func(
                  <<[source |-> Final(conversation).source, content |-> content]>>)
         /\ (Final(conversation).source = "code_reviewer"
               /\ Mentions(Final(conversation).content, "REVIEW_APPROVED"))
              => decision = "result_reviewer"
         /\ Final(conversation).source = "code_writer" => decision = "code_reviewer"
         /\ MatchesNoRule(Final(conversation)) <=> decision = NoDecision
    /\ fallbacks = IF decision = NoDecision THEN 1 ELSE 0

\* a decision taken from the last of two turns whose first would have been
\* decided differently
C14_Witness ==
  /\ Len(conversation) = 2
  /\ decision = "code_reviewer"
  /\ custom_selector_func(<<conversation[1]>>) = "result_reviewer"


\* the turns of the history that announce a stage
StageTurns == SelectSeq(messages, LAMBDA msg : msg.msg_type = "stage")

\* C15: in every iteration the stages are started in the order analysis,
\* production, code review, fidelity review, and then the outer gate: the
\* announcements of the stages in the history go 1, 2, 3, 4, 1, 2, ..., a
\* stage is only started by the step that receives the result of the stage
\* before it (stage 1 by the step that enters an iteration), and the gate is
\* only entered by the step that receives the result of stage 4.
C15_StagesInFixedOrder ==
  /\ [](\A k \in 1..Len(StageTurns) : StageTurns[k] = StageTurn(((k - 1) % 4) + 1))
  /\ [][stage' # stage =>
          \/ /\ stage' = 1
             /\ \/ stage = 0 /\ wpc = "browser" /\ iteration' = 1
                \/ stage = 4 /\ wpc = "gate_input" /\ iteration' = iteration + 1
          \/ /\ stage \in 1..3
             /\ stage' = stage + 1
             /\ wpc = "stage"
             /\ stop_reason' # stop_reason
             /\ stop_reason'.stage = stage]_vars
  /\ [][(wpc' = "gate_input" /\ wpc # "gate_input") =>
          /\ stage = 4
          /\ wpc = "stage"
          /\ stop_reason' # stop_reason
          /\ stop_reason'.stage = 4]_vars

\* a second iteration has gone through its four stages to the gate
C15_Witness ==
  /\ iteration = 2
  /\ wpc = "gate_input"
  /\ Len(StageTurns) = 8


\* the positions in the history of the turns of the given type and content
TurnsLike(content, msg_type) ==
  {k \in 1..Len(messages) :
     messages[k] = ChatMessage("system", content, msg_type)}

\* C16: while the cancellation flag is set in a run that has not ended, no
\* step starts a stage or publishes a worker turn; and a run in which a stop
\* was accepted ends as stopped, with a 'stopped' system turn published
\* before the turn that completes the run.
C16_NothingStartsAfterCancel ==
  /\ [][(cancel_event /\ running) =>
          /\ stage' = stage
          /\ iteration' = iteration
          /\ Len(StageTurns') = Len(StageTurns)
          /\ WorkerTurns(messages') = WorkerTurns(messages)]_vars
  /\ []((cancelledIn # "none" /\ outcome # "none") =>
          /\ outcome = "stopped"
          /\ \E k \in TurnsLike("stopped by user", "system") :
               \A e \in TurnsLike("workflow finished", "workflow_complete") : k < e)

\* a stop accepted while the fidelity review was running ended the run
C16_Witness ==
  /\ outcome = "stopped"
  /\ cancelledIn = "stage"
  /\ stage = 4
  /\ WorkerTurns(messages) > 0


\* the positions in the history of the turns of type error
ErrorTurns == {k \in 1..Len(messages) : messages[k].msg_type = "error"}

\* C17: a failure of a backend or worker call ends the run at once and the
\* run publishes an error-type turn; a run that ended as stopped has
\* published the 'stopped' system turn and no error-type turn, a run that
\* ended in an error has published no 'stopped' turn, and a completed run
\* has published neither.
C17_ErrorAndStoppedAreDistinct ==
  /\ [][(FigmaFailed \/ BrowserFailed \/ StageFailed \/ InfoFailed) =>
          /\ outcome' = "error"
          /\ wpc' = "done"
          /\ ~running'
          /\ messages'[Len(messages') - 1] = Sys("workflow error", "error")]_vars
  /\ [](/\ outcome = "error" =>
             ErrorTurns # {} /\ TurnsLike("stopped by user", "system") = {}
        /\ outcome = "stopped" =>
             ErrorTurns = {} /\ TurnsLike("stopped by user", "system") # {}
        /\ outcome \in {"none", "completed"} =>
             ErrorTurns = {} /\ TurnsLike("stopped by user", "system") = {})

\* a stage failed in the second iteration, after a stop-free first one
C17_Witness ==
  /\ outcome = "error"
  /\ iteration = 2
  /\ stage = 3
  /\ cancelledIn = "none"


\* the answers the outer gate has taken, in order
GateAnswers == SelectSeq(taken, LAMBDA g : g.by = "gate")

\* the answers of the outer gate that were not ok
Corrections == SelectSeq(GateAnswers, LAMBDA g : ~IsOk(g.value))

\* C18 without the folding into the task description: a completed run ended
\* on the answer ok, every other answer of the gate was recorded as a
\* correction, and each of them started an iteration at stage 1.
GateAnswerDecides ==
  /\ outcome = "completed" =>
       GateAnswers # <<>> /\ IsOk(GateAnswers[Len(GateAnswers)].value)
  /\ \A k \in 1..(Len(GateAnswers) - 1) : ~IsOk(GateAnswers[k].value)
  /\ Len(user_corrections) = Len(Corrections)
  /\ \A k \in 1..Len(Corrections) : user_corrections[k] = Corrections[k].value
  /\ stage >= 1 => iteration = 1 + Len(user_corrections)

\* C18: at the outer gate ok ends the run as completed; any other answer is
\* recorded as a correction, starts the next iteration at stage 1, and is
\* part of the task description of that iteration.
C18_CorrectionFoldedIntoNextIteration ==
  /\ GateAnswerDecides
  /\ iteration >= 2 =>
       \E k \in 1..Len(task_prompt) :
         task_prompt[k] = user_corrections[Len(user_corrections)]


\* how many of the first n turns of the history are of the given type
CountOf(msg_type, n) ==
  Cardinality({k \in 1..n : messages[k].msg_type = msg_type})

\* the turns of the given type that the step appends to the history
Appended(msg_type) ==
  {k \in (Len(messages) + 1)..Len(messages') : messages'[k].msg_type = msg_type}

\* C19: request_input sets the awaiting-input flag and publishes its prompt
\* as an input_request turn before it waits for a value; when it gets one it
\* clears the flag, publishes the value as a user turn and returns it.  So
\* every user turn of the history has an input_request turn of its own
\* before it.
C19_InputRequestBeforeUserTurn ==
  /\ [](\A n \in 1..Len(messages) : CountOf("user", n) <= CountOf("input_request", n))
  /\ [][Appended("input_request") # {} =>
          /\ waiting_for_input'
          /\ Len(getters') = Len(getters) + 1
          /\ getters'[Len(getters')] \in {"gate", "info"}]_vars
  /\ [][Appended("user") # {} =>
          /\ Cardinality(Appended("user")) = 1
          /\ input_queue # <<>>
          /\ input_queue' = Tail(input_queue)
          /\ \A k \in Appended("user") :
               messages'[k] = ChatMessage("user", Head(input_queue), "user")
          /\ ~waiting_for_input'
          /\ Len(taken') = Len(taken) + 1
          /\ taken'[Len(taken')].by = Head(getters)
          /\ Head(getters) \in {"gate", "info"}
          /\ taken'[Len(taken')].value = Head(input_queue)]_vars

\* info_gatherer and the outer gate have both asked and been answered
C19_Witness ==
  /\ outcome = "completed"
  /\ CountOf("user", Len(messages)) = 2
  /\ CountOf("input_request", Len(messages)) = 2


\* the values of a sequence of takings
ValuesOf(gs) == [k \in 1..Len(gs) |-> gs[k].value]

\* every value put into input_queue is taken at most once, in the order of
\* the puts, by whoever takes it
QueueIsFifo == ValuesOf(taken) \o input_queue = provided

\* C20: the answers passed to provide_input are returned by request_input
\* calls, each at most once and in the order they were provided, and an
\* answer that no request has returned yet is kept for the next request:
\* the answers returned so far, followed by the answers still queued, are
\* the answers provided.
C20_AnswersKeptForRequests ==
  ValuesOf(SelectSeq(taken, LAMBDA g : g.by \in {"gate", "info"} /\ g.value \in Answers))
    \o SelectSeq(input_queue, LAMBDA v : v \in Answers)
  = SelectSeq(provided, LAMBDA v : v \in Answers)

(***************************************************************************)
(* Claims about emit and abandoned subscribers, checked under SpecBridge   *)
(***************************************************************************)
\* the step is an emit: the history grows
EmitStep == Len(messages') > Len(messages)

\* the registered queues nobody takes from: the handler ended without
\* unsubscribing, or has not started send_task yet
Undrained == { o \in Range(subscribers) : opc[o] # "live" }

\* C21: emit never waits for a subscriber: whatever the registered queues
\* hold, and whether or not anybody takes from them, an emit can complete, and
\* the step that appends the turn to the history also puts it at the end of
\* every registered queue; the queues of abandoned subscribers just grow.
C21_EmitNeverWaitsForSubscriber ==
  /\ [](nEmitted < MaxEmits => ENABLED Emit("code_writer", "agent"))
  /\ [][EmitStep =>
         /\ messages' = Append(messages, Last(messages'))
         /\ subscribers' = subscribers
         /\ \A o \in Range(subscribers) :
              queue'[o] = Append(queue[o], Last(messages'))]_vars

\* an observer dropped out during the replay and its queue, still registered,
\* holds two turns nobody takes, while a later observer has been delivered
\* the whole history
C21_Witness ==
  \E o1, o2 \in Observers :
    /\ opc[o1] = "dropped" /\ o1 \in Undrained /\ Len(queue[o1]) >= 2
    /\ opc[o2] = "live" /\ queue[o2] = <<>>
    /\ Len(messages) >= 2
    /\ Durable(received[o2]) = SubSeq(messages, joinedAt[o2] + 1, Len(messages))
    /\ joinedAt[o2] = 0

(***************************************************************************)
(* Claims about create_stream, checked under SpecStream                    *)
(***************************************************************************)
\* the step belongs to a stream: it is asked for, sends a request, or ends
StreamStep ==
  spc' # spc \/ streamRequests' # streamRequests \/ stream_result' # stream_result

C23_NoCallFailsUnattempted ==
  \A c \in Callers :
    (pc[c] = "done" /\ result[c].kind = "raise") => Len(tried[c]) >= 1

(***************************************************************************)
(* Claims about the cooldown map and the scan, checked under Spec          *)
(***************************************************************************)
\* no create call is under way
BetweenCalls == \A c \in Callers : pc[c] \in {"idle", "done"}

\* C24 as stated: between calls, every key of the cooldown map is an endpoint
\* a call starting now would skip: its wake-up timestamp is in the future.
C24_MapKeysAreExcluded ==
  BetweenCalls => \A e \in DOMAIN cooldowns : Cooling(e, clock, cooldowns)

\* C25: a create call attempts no endpoint twice during its scan, makes at
\* most N scan attempts and at most one attempt after them, N + 1 attempts in
\* all for N endpoints, and sleeps at most once.
C25_AtMostOneScanOneSleepOneRetry ==
  \A c \in Callers :
    /\ \A k, n \in ScanAttempts(c) : k # n => tried[c][k].idx # tried[c][n].idx
    /\ Cardinality(ScanAttempts(c)) <= nClients
    /\ Cardinality(RetryAttempts(c)) <= 1
    /\ Len(tried[c]) <= nClients + 1
    /\ sleeps[c] <= 1

\* a call on three endpoints has made four attempts and slept once, and its
\* last attempt was rate-limited too
C25_Witness ==
  \E c \in Callers :
    /\ nClients = 3 /\ Len(tried[c]) = 4 /\ sleeps[c] = 1
    /\ pc[c] = "done" /\ result[c].kind = "raise"
    /\ IsRateLimitError(result[c].error)

\* the request of call c that is in flight is answered in this step
Succeeds(c) ==
  /\ pc[c] \in {"await_scan", "await_retry"}
  /\ Len(tried'[c]) = Len(tried[c])
  /\ Last(tried'[c]).out = "ok"

\* the all-rate-limited reset of call c happens in this step
Resets(c) == sleeps'[c] = sleeps[c] + 1

\* call c sends a request of its scan in this step
SendsScanRequest(c) ==
  /\ tried'[c] # <<>>
  /\ Last(tried'[c]).out = "pending"
  /\ Last(tried'[c]).phase = "scan"
  /\ tried[c] = <<>> \/ Last(tried[c]).out # "pending" \/ Len(tried'[c]) > Len(tried[c])

\* C26: the preferred index follows the successes: a step in which a request
\* is answered makes the answering endpoint the preferred one, the reset after
\* an all-rate-limited scan makes it the first endpoint, and no other step
\* changes it (it starts as the first endpoint); every request of a scan goes
\* to the first endpoint, counted round-robin from the preferred index, that
\* is not cooling down at the time the call started.
C26_PreferredFollowsSuccess ==
  [][\A c \in Sequential :
       /\ Succeeds(c) => current_index' = Last(tried'[c]).idx
       /\ Resets(c) => current_index' = 0
       /\ (~Succeeds(c) /\ ~Resets(c)) => current_index' = current_index
       /\ SendsScanRequest(c) =>
            LET e == Last(tried'[c]).idx
                j == i'[c]
            IN /\ e = (current_index + j) % nClients
               /\ j \in 0..(nClients - 1)
               /\ ~Cooling(e, now'[c], cooldowns')
               /\ \A m \in 0..(j - 1) :
                    Cooling((current_index + m) % nClients, now'[c], cooldowns')]_vars

\* the call before this one was answered by endpoint 2; this call started its
\* scan there, found it rate-limited, went round to endpoint 0 and was
\* answered there, which made endpoint 0 the preferred one
C26_Witness ==
  \E c \in Sequential :
    /\ nClients = 3 /\ ncalls >= 2 /\ pc[c] = "done" /\ result[c] = Returned(0)
    /\ Len(tried[c]) = 2 /\ tried[c][1].idx = 2 /\ Limited(tried[c][1])
    /\ tried[c][2].idx = 0 /\ tried[c][2].phase = "scan"
    /\ current_index = 0

(***************************************************************************)
(* Claims about how a reflection loop ends and who speaks, under SpecLoop  *)
(***************************************************************************)
Producer == "code_writer"
Critic(t) == CHOOSE a \in Range(t.participants) : a # Producer

\* C27 as stated: a loop that has ended with message budget left has ended
\* on a turn of its critic that contains the approval marker.
C27_OnlyCriticApprovalEndsEarly ==
  (lstate = "terminated" /\ transcript # <<>> /\ counted < MaxMessages(team)) =>
     /\ Last(transcript).source = Critic(team)
     /\ Mentions(Last(transcript).content, team.marker)

\* C28 as stated: in every loop, the factories' and those of stages 3 and 4,
\* the odd turns are the producer's and the even turns the critic's.
C28_ProducerThenCriticEveryRound ==
  \A k \in 1..Len(transcript) :
    transcript[k].source = IF k % 2 = 1 THEN Producer ELSE Critic(team)

(***************************************************************************)
(* Claims about the rules of the selector, checked under SpecSelector      *)
(***************************************************************************)
\* the selector function returns what the first matching rule returns
FirstMatchDecides ==
  conversation # <<>> =>
    LET hits == Matching(Last(conversation))
    IN custom_selector_func(conversation) =
         IF hits = {} THEN NoDecision
         ELSE RuleReturns[CHOOSE r \in hits : \A q \in hits : r <= q]

\* C29 as stated: for every last turn at most one rule's condition holds, so
\* that no two rules compete for a turn; also for a code_reviewer turn that
\* contains both REVIEW_APPROVED and REVIEW_REJECTED.
C29_AtMostOneRuleMatches ==
  conversation # <<>> => Cardinality(Matching(Last(conversation))) <= 1

(***************************************************************************)
(* Claims about the history and the subscriptions under all the methods    *)
(* of the bridge, checked under SpecApi                                    *)
(***************************************************************************)
\* C31 as stated: whatever method of the bridge is called, the history after
\* the call starts with the history before it: no turn is removed, changed
\* or moved.
C31_HistoryAppendOnly ==
  [][/\ Len(messages') >= Len(messages)
     /\ SubSeq(messages', 1, Len(messages)) = messages]_vars

(***************************************************************************)
(* Claims about token chunks and late observers, checked under SpecBridge  *)
(***************************************************************************)
\* the step is a call of emit_chunk
ChunkStep == nChunks' # nChunks

\* what the replay loop of the handler of o has sent
Replayed(o) == SubSeq(received[o], 1, nReplayed[o])

RunActive == wpc \notin {"none", "done"}

\* the step makes the listener take a value out of input_queue
ListenerTakes == Len(taken') > Len(taken) /\ taken'[Len(taken')].by = "listener"

\* the turns of the pipeline in the history: stage announcements and the
\* turns of the participants
PipelineTurns == SelectSeq(messages, LAMBDA msg : msg.msg_type \in {"stage", "agent"})

\* C33: at most one run is active: while the task of a run exists and has not
\* ended the listener awaits it and takes no command, a start command sent
\* meanwhile included; and pipeline turns are only appended by the one run
\* the listener awaits.
C33_AtMostOneRunActive ==
  /\ [](RunActive => lpc = "await_task" /\ workflow_task = "pending")
  /\ [][ListenerTakes => ~RunActive /\ workflow_task = "none"]_vars
  /\ [][PipelineTurns' # PipelineTurns => RunActive /\ lpc = "await_task"]_vars

\* a start command was sent after the listener had created the task, before
\* the run set the running flag, and is still queued while the run is in a
\* stage
C33_Witness ==
  /\ wpc = "stage" /\ running
  /\ \E k \in 1..Len(input_queue) : input_queue[k] = StartCommand
  /\ PipelineTurns # <<>>

\* C34 as stated: the two kinds of command never cross: whatever a
\* request_input call has returned is the text of an input command, and
\* whatever the listener has taken as its start signal is a start command.
C34_CommandsNeverCross ==
  \A k \in 1..Len(taken) :
    /\ taken[k].by \in {"gate", "info"} => taken[k].value \in Answers
    /\ taken[k].by = "listener" => taken[k].value = StartCommand

\* a request_input call is suspended in input_queue.get()
RequestPending == \E k \in 1..Len(getters) : getters[k] \in {"gate", "info"}

\* C35 as stated: the awaiting-input flag is set exactly while a
\* request_input call is suspended waiting for a value.
C35_FlagIffRequestPending == waiting_for_input <=> RequestPending

\* where the history holds a workflow_complete turn
CompleteAt == { k \in 1..Len(messages) : messages[k].msg_type = "workflow_complete" }

\* the turns that receive_task and the listener publish for a start command;
\* every other turn is published by a run or by a call the run made
CommandTurns == {Sys("start requested", "system"), Sys("workflow starting", "system")}

\* C36 as stated: once run_workflow_web has returned, however it ended, the
\* bridge is neither running nor waiting for input, and the history holds
\* exactly one workflow_complete turn, with no turn of the run after it.
C36_RunEndsCleanly ==
  wpc = "done" =>
    /\ ~running /\ ~waiting_for_input
    /\ Cardinality(CompleteAt) = 1
    /\ \A c \in CompleteAt : \A k \in (c + 1)..Len(messages) : messages[k] \in CommandTurns

(***************************************************************************)
(* The listener across runs, checked under SpecRunFair                     *)
(***************************************************************************)
\* the listener waits for a command, first in line, and the next value of the
\* queue is a start command
StartAccepted ==
  /\ lpc = "idle"
  /\ getters # <<>> /\ Head(getters) = "listener"
  /\ input_queue # <<>> /\ Head(input_queue) = StartCommand

\* C37 as stated: the listener stays live across runs: after a run has ended,
\* a start command that reaches the waiting listener leads to a run, i.e. to
\* the listener awaiting the task it created for it.
C37_StartLeadsToRun == StartAccepted ~> (lpc = "await_task")

(***************************************************************************)
(* The preferred index and the cooldowns, checked under SpecStream         *)
(***************************************************************************)
\* the step is a call of create_stream
StreamCalled == nstreams' = nstreams + 1

\* C38 as stated: after any sequence of create calls the preferred index
\* points at an endpoint a scan starting now would not skip, and so the
\* endpoint a create_stream call targets is never in an active cooldown.
C38_PreferredNeverCooling ==
  /\ [](NoCreateInFlight => ~Cooling(current_index, clock, cooldowns))
  /\ [][StreamCalled => ~Cooling(preferredAtCall', clock, cooldowns)]_vars

(***************************************************************************)
(* Claims about unsubscribe, checked under SpecApi                         *)
(***************************************************************************)
\* the step puts something into a queue
Pushed == queue' # queue

\* the queues subscribe returned and unsubscribe was not called for
Subscribed == { o \in Observers : opc[o] = "live" }

\* C39: once unsubscribe was called for a queue, no emit, emit_chunk or status
\* push puts anything into it, while every push still puts its one item at
\* the end of every other registered queue; unsubscribe takes out the queue
\* it is called for and no other, keeps the order of the rest and touches no
\* queue, and called for a queue that is not registered it changes nothing.
C39_UnsubscribedQueueGetsNothing ==
  /\ [](Range(subscribers) = Subscribed)
  /\ [](\A k, n \in 1..Len(subscribers) : k < n => subscribers[k] < subscribers[n])
  /\ [][\A o \in Observers : opc[o] = "closed" => queue'[o] = queue[o]]_vars
  /\ [][Pushed =>
         \E item \in {StatusDict, ChunkDict(nChunks'), ChatMessage("code_writer", nEmitted', "agent")} :
           \A o \in Observers :
             queue'[o] = IF o \in Subscribed THEN Append(queue[o], item) ELSE queue[o]]_vars
  /\ [][\A o \in Observers :
          opc[o] = "live" /\ opc'[o] = "closed" =>
            /\ queue' = queue /\ messages' = messages
            /\ subscribers' = Unsubscribed(subscribers, o)]_vars

\* unsubscribe was called for the first of two queues after one push, and a
\* later push reached the second queue only
C39_Witness ==
  /\ opc[1] = "closed" /\ opc[2] = "live"
  /\ subscribers = <<2>>
  /\ Len(queue[1]) = 1 /\ Len(queue[2]) = 2
  /\ queue[2][1] = queue[1][1]


====
